---- MODULE Spec2Model ----
(***************************************************************************)
(* Video-processing pipeline and credit ledger of video-insight-api.       *)
(*                                                                         *)
(* The stored state is the three tables the services read and write        *)
(* (users.credits, credit_transactions, videos).  The specifications       *)
(* share it:                                                               *)
(*   Spec        the pipeline: submissions, the three stage functions and  *)
(*               the processVideo driver, one call after another;          *)
(*   SpecLedger  spendCredits, refundCredits, grantCredits and             *)
(*               deductCredits called one after another;                   *)
(*   SpecAdmin   grantCredits and deductCredits over several accounts;     *)
(*   SpecLedgerAndPipeline  ledger calls and pipeline calls in one run;    *)
(*   SpecConc    spendCredits calls of concurrent requests, one step per   *)
(*               await of the function;                                    *)
(*   SpecRace    concurrent calls of the four ledger functions;            *)
(*   SpecCost    calculateCreditsFromTokens applied to token counts;       *)
(*   SpecRequests  the HTTP handlers: a request starts a pipeline          *)
(*               invocation, which returns in a later step;                *)
(*   SpecAccess  the HTTP handlers with the identity of the caller;        *)
(*   SpecJobs    several jobs whose stage calls interleave;                *)
(*   SpecService checkTranscriptionStatus called again and again;          *)
(*   SpecPoll    pollTranscriptionStatus on scripted status responses;     *)
(*   SpecStore   updateVideo with a storage that can fail;                 *)
(*   SpecAI      the retry loops of generateAIInsights;                    *)
(*   SpecChunks  the chunking functions on strings;                        *)
(*   SpecSynthesis  generateAIInsights with the content of the results.    *)
(* Storage writes are assumed to succeed in all of them but SpecStore.     *)
(***************************************************************************)
EXTENDS Integers, Sequences, FiniteSets, TLC

VARIABLES
    credits,     \* users.credits, one entry per existing user
    credits0,    \* history: the balances the run started with
    tx,          \* credit_transactions, in insertion order (row id = index)
    videos,      \* videos, in insertion order (video id = index)
    estimateOf,  \* history: video id -> id of the spend row of its submission
    last,        \* the call that finished last: name, inputs seen, outcome
    prev,        \* SpecLedger: the call that finished before a refundCredits;
                 \* SpecService: the answer of the transcription service
    procs,       \* SpecConc, SpecRace: the concurrent ledger calls
    inflight,    \* SpecRequests: the pipeline invocations that have not returned
    gen          \* SpecAI, SpecSynthesis: one run of generateAIInsights;
                 \* SpecChunks: one call of a chunking function

vars == <<credits, credits0, tx, videos, estimateOf, last, prev, procs,
          inflight, gen>>

----------------------------------------------------------------------------
(* Bounds *)

NumUsers == 1
MaxJobs == 1
MaxTx == 3
MaxBalance == 13
MaxAmount == 6
NumProcs == 2
NumAccounts == 2
MaxInFlight == 2
MaxTokens == 4600
MaxSentences == 3
NumJobs == 2
MaxChars == 6
MaxResults == 3

(* Program constants *)

estimatedCredits == 5
maxAttempts == 30
baseServiceCost == 2
tokensPerCredit == 500
minCredits == 3
maxCredits == 10
maxRetries == 3

NULL == "null"
NULLINT == -1

Users == 1..NumUsers
NoSuchUser == NumUsers + 1

IdStr == <<"1", "2", "3", "4", "5", "6", "7", "8">>

\* videoId.toString()
toString(n) == IdStr[n]

Max(a, b) == IF a >= b THEN a ELSE b
Min(a, b) == IF a <= b THEN a ELSE b
Abs(a) == IF a < 0 THEN -a ELSE a
CeilDiv(a, b) == (a + b - 1) \div b

----------------------------------------------------------------------------
(* The stored tables as one value, so that a function of the services is   *)
(* an operator from store to store.                                        *)

Store == [credits |-> credits, tx |-> tx, videos |-> videos]

TxRow(userId, amount, type, referenceId, referenceType, tokensUsed) ==
    [userId |-> userId, amount |-> amount, type |-> type,
     referenceId |-> referenceId, referenceType |-> referenceType,
     tokensUsed |-> tokensUsed]

SpendReq(userId, amount, referenceId, referenceType, tokensUsed) ==
    [userId |-> userId, amount |-> amount, referenceId |-> referenceId,
     referenceType |-> referenceType, tokensUsed |-> tokensUsed]

RefundReq(userId, amount, referenceId, referenceType) ==
    [userId |-> userId, amount |-> amount, referenceId |-> referenceId,
     referenceType |-> referenceType]

----------------------------------------------------------------------------
(* credit.service.ts *)

SufficientCreditsAlways(S, req) == req.userId \in DOMAIN S.credits

\* spendCredits: the guard `!user || user.credits < amount` negated
SufficientCredits(S, req) ==
    /\ req.userId \in DOMAIN S.credits
    /\ S.credits[req.userId] >= req.amount

SpendRowPositive(req) ==
    TxRow(req.userId, req.amount, "spend", req.referenceId,
          req.referenceType, req.tokensUsed)

\* spendCredits: the row it inserts
SpendRow(req) ==
    TxRow(req.userId, -req.amount, "spend", req.referenceId,
          req.referenceType, req.tokensUsed)

spendCreditsUpsert(S, req) ==
    IF ~SufficientCredits(S, req) THEN S
    ELSE IF S.tx = <<>>
    THEN [S EXCEPT !.tx = Append(@, SpendRow(req)),
                   !.credits[req.userId] = @ - req.amount]
    ELSE [S EXCEPT !.tx[Len(S.tx)] = SpendRow(req),
                   !.credits[req.userId] = @ - req.amount]

\* spendCredits, run without interleaving: the store it leaves
spendCredits(S, req) ==
    IF SufficientCredits(S, req)
    THEN [S EXCEPT !.tx = Append(@, SpendRow(req)),
                   !.credits[req.userId] = @ - req.amount]
    ELSE S

RefundRow(req) ==
    TxRow(req.userId, req.amount, "refund", req.referenceId,
          req.referenceType, NULLINT)

RefundBalanceOffByOne(balance, amount) == balance + amount - 1

\* refundCredits: the balance it writes
RefundBalance(balance, amount) == balance + amount

\* refundCredits, run without interleaving: always inserts, updates the
\* balance when the user exists
refundCredits(S, req) ==
    LET S1 == [S EXCEPT !.tx = Append(@, RefundRow(req))]
    IN  IF req.userId \in DOMAIN S.credits
        THEN [S1 EXCEPT !.credits[req.userId] = RefundBalance(@, req.amount)]
        ELSE S1

\* AdminCreditRequest without userId: the request is for all users
AllUsers == 0

AdminReq(userId, amount) == [userId |-> userId, amount |-> amount]

\* `users` is the number of users the message reports, NULLINT when the
\* message reports none
AdminResult(S, success, message, users) ==
    [S |-> S, success |-> success, message |-> message, users |-> users]

AdminRow(userId, amount, type) ==
    TxRow(userId, amount, type, NULL, "admin_action", NULLINT)

\* UserRepository.find(): the users in id order
UserSeq(S) == [i \in 1..Len(S.credits) |-> i]

\* the rows saved for the users of `users`, and the balance updates after them
AdminApply(S, users, amount, type) ==
    [S EXCEPT !.tx = @ \o [i \in 1..Len(users) |->
                               AdminRow(users[i], amount, type)],
              !.credits = [u \in DOMAIN @ |->
                              IF \E i \in 1..Len(users) : users[i] = u
                              THEN @[u] + amount ELSE @[u]]]

grantCredits(S, req, hashOk) ==
    IF ~hashOk THEN AdminResult(S, FALSE, "Invalid admin hash", NULLINT)
    ELSE IF req.userId # AllUsers
    THEN IF req.userId \notin DOMAIN S.credits
         THEN AdminResult(S, FALSE, "User not found", NULLINT)
         ELSE AdminResult(AdminApply(S, <<req.userId>>, req.amount, "admin_grant"),
                          TRUE, "Granted credits to user", NULLINT)
    ELSE AdminResult(AdminApply(S, UserSeq(S), req.amount, "admin_grant"),
                     TRUE, "Granted credits to all users", Len(UserSeq(S)))

ValidUsersUnfiltered(S, amount) == UserSeq(S)

\* `users.filter((user) => user.credits >= amount)`
ValidUsers(S, amount) ==
    SelectSeq(UserSeq(S), LAMBDA u : S.credits[u] >= amount)

deductCredits(S, req, hashOk) ==
    IF ~hashOk THEN AdminResult(S, FALSE, "Invalid admin hash", NULLINT)
    ELSE IF req.userId # AllUsers
    THEN IF req.userId \notin DOMAIN S.credits
         THEN AdminResult(S, FALSE, "User not found", NULLINT)
         ELSE IF S.credits[req.userId] < req.amount
         THEN AdminResult(S, FALSE, "User does not have enough credits", NULLINT)
         ELSE AdminResult(AdminApply(S, <<req.userId>>, -req.amount,
                                     "admin_deduct"),
                          TRUE, "Deducted credits from user", NULLINT)
    ELSE IF Len(ValidUsers(S, req.amount)) = 0
    THEN AdminResult(S, FALSE, "No users have enough credits to deduct", NULLINT)
    ELSE AdminResult(AdminApply(S, ValidUsers(S, req.amount), -req.amount,
                                "admin_deduct"),
                     TRUE, "Deducted credits from users",
                     Len(ValidUsers(S, req.amount)))

----------------------------------------------------------------------------
(* video.service.ts: storage helpers *)

\* createVideo as createVideoWithCredits calls it: the controller's videoData
\* (status 'pending') plus creditsCost; every other column is null
NewVideo(userId) ==
    [userId |-> userId, status |-> "pending", videoId |-> NULL,
     transcriptionId |-> NULL, transcription |-> NULL, dashboard |-> NULL,
     tokensUsed |-> NULLINT, creditsCost |-> estimatedCredits,
     errorMessage |-> NULL]

\* updateVideo: writes the fields of updateData, leaves the others
updateVideo(S, id, updateData) ==
    [S EXCEPT !.videos[id] =
        [f \in DOMAIN @ |-> IF f \in DOMAIN updateData THEN updateData[f] ELSE @[f]]]

Failed(msg) == [status |-> "failed", errorMessage |-> msg]

MatchesEstimateAnyReference(row, userId, videoId) ==
    /\ row.userId = userId
    /\ row.referenceType = "video_submission_estimated"

\* the where clause of the estimate lookup
MatchesEstimate(row, userId, videoId) ==
    /\ row.userId = userId
    /\ row.referenceId = toString(videoId)
    /\ row.referenceType = "video_submission_estimated"

\* CreditTransactionRepository.findOne({where: ..., order: {createdAt: 'DESC'}}):
\* the id of the latest matching row, 0 when there is none
FindInitialTransaction(S, userId, videoId) ==
    LET hits == {i \in 1..Len(S.tx) : MatchesEstimate(S.tx[i], userId, videoId)}
    IN  IF hits = {} THEN 0 ELSE CHOOSE i \in hits : \A k \in hits : k <= i

\* `if (initialTransaction) await refundCredits({amount: Math.abs(amount), ...})`
RefundInitialTransaction(S, userId, videoId, referenceType) ==
    LET it == FindInitialTransaction(S, userId, videoId)
    IN  IF it = 0 THEN S
        ELSE refundCredits(S, RefundReq(userId, Abs(S.tx[it].amount),
                                        toString(videoId), referenceType))

calculateCreditsFromTokensNoBase(tokensUsed) ==
    Max(minCredits, Min(maxCredits, CeilDiv(tokensUsed, tokensPerCredit)))

calculateCreditsFromTokens(tokensUsed) ==
    Max(minCredits,
        Min(maxCredits, baseServiceCost + CeilDiv(tokensUsed, tokensPerCredit)))

\* what a stage function hands back: the store it leaves, whether it threw,
\* its return value or error message, and whether its catch block ran the
\* refund of the estimate (lookup, then refundCredits when a row is found)
Returned(S, ret) ==
    [S |-> S, threw |-> FALSE, ret |-> ret, refundTried |-> FALSE]
Threw(S, msg) ==
    [S |-> S, threw |-> TRUE, ret |-> msg, refundTried |-> FALSE]
ThrewAfterRefund(S, msg) ==
    [S |-> S, threw |-> TRUE, ret |-> msg, refundTried |-> TRUE]

----------------------------------------------------------------------------
(* video.service.ts: submission *)

SubmissionReq(userId) ==
    SpendReq(userId, estimatedCredits, NULL, "video_submission_estimated", NULLINT)

createVideoWithCreditsJobFirst(S, userId) ==
    LET S1 == [S EXCEPT !.videos = Append(@, NewVideo(userId))]
    IN  IF ~SufficientCredits(S, SubmissionReq(userId))
        THEN Returned(S1, "Insufficient credits")
        ELSE Returned(spendCredits(S1, SubmissionReq(userId)), "created")

createVideoWithCredits(S, userId) ==
    IF ~SufficientCredits(S, SubmissionReq(userId))
    THEN Returned(S, "Insufficient credits")
    ELSE LET S1 == spendCredits(S, SubmissionReq(userId))
         IN  Returned([S1 EXCEPT !.videos = Append(@, NewVideo(userId))], "created")

----------------------------------------------------------------------------
(* video.service.ts: stage 1 *)

DownloadResponses == {"success", "failure", "throw"}

DownloadError(r) == IF r = "failure" THEN "Failed to download video" ELSE "fetch failed"

startVideoDownload(S, id, r) ==
    IF r = "success"
    THEN Returned(updateVideo(S, id, [videoId |-> "svc", status |-> "downloaded"]),
                  "void")
    ELSE LET S1 == updateVideo(S, id, Failed(DownloadError(r)))
         IN  ThrewAfterRefund(
                 RefundInitialTransaction(S1, S.videos[id].userId, id,
                                          "video_download_refund"),
                 DownloadError(r))

(* video.service.ts: stage 2 *)

TranscriptionResponses == {"success", "failure", "throw"}

TranscriptionError(r) ==
    IF r = "failure" THEN "Failed to request transcription" ELSE "fetch failed"

startTranscriptionUnguarded(S, id, r) ==
    IF r = "success"
    THEN Returned(updateVideo(S, id, [transcriptionId |-> "tr",
                                      status |-> "transcribing"]), "void")
    ELSE ThrewAfterRefund(updateVideo(S, id, Failed(TranscriptionError(r))),
                          TranscriptionError(r))

startTranscription(S, id, r) ==
    IF S.videos[id].videoId = NULL
    THEN Threw(S, "Video not found or not downloaded")
    ELSE IF r = "success"
    THEN Returned(updateVideo(S, id, [transcriptionId |-> "tr",
                                      status |-> "transcribing"]), "void")
    ELSE LET S1 == updateVideo(S, id, Failed(TranscriptionError(r)))
         IN  ThrewAfterRefund(
                 RefundInitialTransaction(S1, S.videos[id].userId, id,
                                          "video_transcription_refund"),
                 TranscriptionError(r))

----------------------------------------------------------------------------
(* video.service.ts: the transcription status endpoint and the poll loop *)

\* one GET /transcriptions/{id}/status: the fetch throws (ok = FALSE) or
\* yields {success, data: {status, text}}
StatusResponse(ok, success, status, text) ==
    [ok |-> ok, success |-> success, status |-> status, text |-> text]

Processing == StatusResponse(TRUE, TRUE, "processing", "")
CompletedWithText == StatusResponse(TRUE, TRUE, "completed", "text")
CompletedNoText == StatusResponse(TRUE, TRUE, "completed", "")
ServiceFailed == StatusResponse(TRUE, TRUE, "failed", "")
Unsuccessful == StatusResponse(TRUE, FALSE, "processing", "")
FetchThrows == StatusResponse(FALSE, FALSE, "processing", "")

\* the responses one poll loop sees: `first` until attempt k, `then` from k on
PollScript(k, first, then) ==
    [i \in 1..maxAttempts |-> IF i < k THEN first ELSE then]

\* `statusData.data.text || null`
TextOrNull(text) == IF text = "" THEN NULL ELSE text

\* what the loop returns, and the value of `attempts` when it returns
PollResult(ret, attempts) == [ret |-> ret, attempts |-> attempts]

ReportsFailedNever(r) == FALSE

\* `statusData.success && statusData.data.status === 'failed'`
ReportsFailed(r) == r.success /\ r.status = "failed"

RECURSIVE PollFrom(_, _)
\* the while loop of pollTranscriptionStatus, entered with `attempts`
PollFrom(script, attempts) ==
    IF attempts >= maxAttempts THEN PollResult(NULL, attempts)
    ELSE LET r == script[attempts + 1]
         IN  IF ~r.ok THEN PollFrom(script, attempts + 1)
             ELSE IF r.success /\ r.status = "completed"
             THEN PollResult(TextOrNull(r.text), attempts + 1)
             ELSE IF ReportsFailed(r) THEN PollResult(NULL, attempts + 1)
             ELSE PollFrom(script, attempts + 1)

pollTranscriptionStatus(script) == PollFrom(script, 0).ret

----------------------------------------------------------------------------
(* video.service.ts: stage 3 *)

TokenSamples == {0, 1200}

\* generateAIInsights: throws, or returns a dashboard and the tokens it used
AIResults ==
    {[threw |-> TRUE, tokensUsed |-> 0]}
        \cup {[threw |-> FALSE, tokensUsed |-> t] : t \in TokenSamples}

\* `CreditTransactionRepository.update(initialTransaction.id, {...})`
AmendTransaction(S, it, cost, tokensUsed) ==
    [S EXCEPT !.tx[it] = [@ EXCEPT !.amount = -cost,
                                   !.referenceType = "video_ai_processing",
                                   !.tokensUsed = tokensUsed]]

FinalSpendReqNegated(userId, id, cost, tokensUsed) ==
    SpendReq(userId, -cost, toString(id), "video_ai_processing", tokensUsed)

\* the fallback spendCredits call of the finalization
FinalSpendReq(userId, id, cost, tokensUsed) ==
    SpendReq(userId, cost, toString(id), "video_ai_processing", tokensUsed)

Completed(tokensUsed, cost) ==
    [transcription |-> "text", dashboard |-> "dashboard",
     tokensUsed |-> tokensUsed, creditsCost |-> cost, status |-> "completed"]

ServiceReportsFailedOrProcessing(f) == f.success

\* `statusData.success && statusData.data.status === 'failed'`
ServiceReportsFailed(f) == f.success /\ f.status = "failed"

\* the branch taken when the poll loop returned a transcript
WithTranscript(S, id, ai) ==
    LET userId == S.videos[id].userId
        cost == calculateCreditsFromTokens(ai.tokensUsed)
        it == FindInitialTransaction(S, userId, id)
        req == FinalSpendReq(userId, id, cost, ai.tokensUsed)
    IN  IF ai.threw
        THEN \* inner catch (refund, mark failed, rethrow), then the outer catch
             LET S1 == RefundInitialTransaction(S, userId, id,
                                                "video_ai_processing_refund")
                 S2 == updateVideo(S1, id, Failed("AI processing failed"))
             IN  ThrewAfterRefund(
                     updateVideo(S2, id, Failed("AI processing failed")),
                     "AI processing failed")
        ELSE IF it # 0
        THEN Returned(updateVideo(AmendTransaction(S, it, cost, ai.tokensUsed),
                                  id, Completed(ai.tokensUsed, cost)),
                      "completed")
        ELSE IF SufficientCredits(S, req)
        THEN Returned(updateVideo(spendCredits(S, req), id,
                                  Completed(ai.tokensUsed, cost)),
                      "completed")
        ELSE Returned(updateVideo(S, id,
                          Failed("Insufficient credits for AI processing")),
                      "failed")

\* the branch taken when the poll loop returned null: one more status fetch f
WithoutTranscript(S, id, f) ==
    IF ~f.ok
    THEN Threw(updateVideo(S, id, Failed("fetch failed")), "fetch failed")
    ELSE IF ServiceReportsFailed(f)
    THEN Returned(updateVideo(S, id,
                      Failed("Transcription failed at service level")),
                  "failed")
    ELSE Returned(S, "transcribing")

checkTranscriptionStatusNoPoll(S, id, script, f, ai) ==
    IF S.videos[id].transcriptionId = NULL
    THEN Threw(S, "Video not found or transcription not started")
    ELSE WithTranscript(S, id, ai)

checkTranscriptionStatus(S, id, script, f, ai) ==
    IF S.videos[id].transcriptionId = NULL
    THEN Threw(S, "Video not found or transcription not started")
    ELSE IF pollTranscriptionStatus(script) # NULL
    THEN WithTranscript(S, id, ai)
    ELSE WithoutTranscript(S, id, f)

----------------------------------------------------------------------------
(* video.service.ts: the processVideo driver *)

\* the inputs of one checkTranscriptionStatus call: the responses its poll
\* loop sees, the response to its own status fetch, the synthesis result
CheckInput(script, f, ai) == [script |-> script, f |-> f, ai |-> ai]

AllProcessing == PollScript(1, Processing, Processing)
NoAI == [threw |-> FALSE, tokensUsed |-> 0]
StillProcessing == CheckInput(AllProcessing, Processing, NoAI)

\* the catch block without its updateVideo call
ProcessVideoCatchNoUpdate(S, id, msg) ==
    ThrewAfterRefund(
        RefundInitialTransaction(S, S.videos[id].userId, id,
                                 "video_processing_refund"), msg)

\* the catch block of processVideo
ProcessVideoCatch(S, id, msg) ==
    LET S1 == updateVideo(S, id, Failed(msg))
    IN  ThrewAfterRefund(
            RefundInitialTransaction(S1, S.videos[id].userId, id,
                                     "video_processing_refund"), msg)

RECURSIVE ProcessVideoLoop(_, _, _, _)
\* the while loop of processVideo, entered with `attempts`; `checks` in the
\* result is the number of checkTranscriptionStatus calls the loop made
ProcessVideoLoop(S, id, checks, attempts) ==
    IF attempts >= maxAttempts
    THEN ProcessVideoCatch(S, id, "Processing timed out")
             @@ [checks |-> attempts]
    ELSE LET in == checks[attempts + 1]
             c == checkTranscriptionStatus(S, id, in.script, in.f, in.ai)
             made == [checks |-> attempts + 1]
         IN  IF c.threw THEN ProcessVideoCatch(c.S, id, c.ret) @@ made
             ELSE IF c.ret = "completed" THEN Returned(c.S, "void") @@ made
             ELSE IF c.ret = "failed"
             THEN ProcessVideoCatch(c.S, id, "Processing failed") @@ made
             ELSE ProcessVideoLoop(c.S, id, checks, attempts + 1)

processVideo(S, id, r1, r2, checks) ==
    LET d == startVideoDownload(S, id, r1)
        t == startTranscription(d.S, id, r2)
        none == [checks |-> 0]
    IN  IF d.threw THEN ProcessVideoCatch(d.S, id, d.ret) @@ none
        ELSE IF t.threw THEN ProcessVideoCatch(t.S, id, t.ret) @@ none
        ELSE ProcessVideoLoop(t.S, id, checks, 0)

----------------------------------------------------------------------------
(* Initial state *)

InitialBalances == {0, estimatedCredits, MaxBalance}

Procs == 1..NumProcs

NoCall == [op |-> "none"]

Slots == 1..MaxInFlight

NoInvocation == [op |-> "none", job |-> 0]

AINotRunning == [pc |-> "none"]

ProcIdle == [pc |-> "idle", userId |-> 0, amount |-> 0, user |-> NULLINT,
             ret |-> FALSE]

Init ==
    /\ credits \in [Users -> InitialBalances]
    /\ credits0 = credits
    /\ tx = <<>>
    /\ videos = <<>>
    /\ estimateOf = <<>>
    /\ last = NoCall
    /\ prev = NoCall
    /\ procs = [p \in Procs |-> ProcIdle]
    /\ inflight = [i \in Slots |-> NoInvocation]
    /\ gen = AINotRunning

Jobs == 1..Len(videos)

\* writes the store a call left
Commit(S) ==
    /\ Len(S.tx) <= MaxTx
    /\ credits' = S.credits
    /\ tx' = S.tx
    /\ videos' = S.videos

----------------------------------------------------------------------------
(* Inputs of the pipeline calls *)

\* the poll loop sees `then` at once, or at its last attempt
TextNow == PollScript(1, Processing, CompletedWithText)
TextAtLastAttempt == PollScript(maxAttempts, Processing, CompletedWithText)
NoTextNow == PollScript(1, Processing, CompletedNoText)
FailedNow == PollScript(1, Processing, ServiceFailed)
FailedAtLastAttempt == PollScript(maxAttempts, Processing, ServiceFailed)
AllThrow == PollScript(1, FetchThrows, FetchThrows)

\* poll loops that end without a transcript, each with the answer to the
\* status fetch that follows them
WithoutTranscriptInputs ==
    {<<AllProcessing, Processing>>, <<AllProcessing, ServiceFailed>>,
     <<AllProcessing, FetchThrows>>, <<AllProcessing, Unsuccessful>>,
     <<FailedNow, ServiceFailed>>, <<FailedNow, Processing>>,
     <<FailedAtLastAttempt, ServiceFailed>>,
     <<NoTextNow, CompletedNoText>>,
     <<AllThrow, FetchThrows>>, <<AllThrow, Processing>>}

\* an input the call does not read is held at one value
CheckInputs ==
    {CheckInput(in[1], in[2], NoAI) : in \in WithoutTranscriptInputs}
    \cup {CheckInput(TextNow, Processing, ai) : ai \in AIResults}
    \cup {CheckInput(TextAtLastAttempt, Processing, NoAI)}

DriverFinalChecks ==
    {CheckInput(TextNow, Processing, ai) : ai \in AIResults}
    \cup {CheckInput(FailedNow, ServiceFailed, NoAI),
          CheckInput(AllThrow, FetchThrows, NoAI)}

\* the service reports completed without a text on every call
EmptyTranscript == CheckInput(NoTextNow, CompletedNoText, NoAI)

\* the check inputs one processVideo loop sees: `waiting` until turn k
DriverChecks(k, waiting, final) ==
    [i \in 1..maxAttempts |-> IF i < k THEN waiting ELSE final]

DriverInput(r1, r2, checks) == [r1 |-> r1, r2 |-> r2, checks |-> checks]

Unread == DriverChecks(1, EmptyTranscript, EmptyTranscript)

\* the service reports processing to every fetch of every check
NeverCompletes == DriverChecks(1, StillProcessing, StillProcessing)

DriverInputs ==
    {DriverInput(r1, "success", Unread) : r1 \in {"failure", "throw"}}
    \cup {DriverInput("success", r2, Unread) : r2 \in {"failure", "throw"}}
    \cup {DriverInput("success", "success",
                      DriverChecks(k, StillProcessing, final)) :
             k \in {1, 2}, final \in DriverFinalChecks}
    \cup {DriverInput("success", "success", Unread),
          DriverInput("success", "success", NeverCompletes)}

----------------------------------------------------------------------------
(* Spec: the pipeline, one call after another *)

StageCall(op, job, obs, res) ==
    [op |-> op, job |-> job, obs |-> obs, ret |-> res.ret, threw |-> res.threw,
     refundTried |-> res.refundTried]

\* what the status endpoint reported during one checkTranscriptionStatus
Observed(script, f) ==
    IF pollTranscriptionStatus(script) # NULL THEN "text"
    ELSE IF f = ServiceFailed THEN "failed"
    ELSE IF f = Processing /\ script = AllProcessing THEN "processing"
    ELSE "other"

\* what the status endpoint reported last during one processVideo
DriverObserved(in) ==
    IF in.r1 = "success" /\ in.r2 = "success"
    THEN Observed(in.checks[maxAttempts].script, in.checks[maxAttempts].f)
    ELSE "none"

\* createVideoHandler: createVideoWithCredits; the download it starts in the
\* background is a later StartVideoDownload step
Submit(u) ==
    LET res == createVideoWithCredits(Store, u)
    IN  /\ Len(res.S.videos) <= MaxJobs
        /\ Commit(res.S)
        /\ estimateOf' = IF res.ret = "created"
                         THEN Append(estimateOf, Len(res.S.tx))
                         ELSE estimateOf
        /\ last' = StageCall("createVideoWithCredits", Len(res.S.videos),
                             "none", res)
        /\ UNCHANGED <<gen, inflight, credits0, prev, procs>>

StartVideoDownload(j, r) ==
    LET res == startVideoDownload(Store, j, r)
    IN  /\ Commit(res.S)
        /\ last' = StageCall("startVideoDownload", j, r, res)
        /\ UNCHANGED <<gen, inflight, credits0, estimateOf, prev, procs>>

StartTranscription(j, r) ==
    LET res == startTranscription(Store, j, r)
    IN  /\ Commit(res.S)
        /\ last' = StageCall("startTranscription", j, r, res)
        /\ UNCHANGED <<gen, inflight, credits0, estimateOf, prev, procs>>

CheckTranscriptionStatus(j, in) ==
    LET res == checkTranscriptionStatus(Store, j, in.script, in.f, in.ai)
    IN  /\ Commit(res.S)
        /\ last' = StageCall("checkTranscriptionStatus", j,
                             Observed(in.script, in.f), res)
        /\ UNCHANGED <<gen, inflight, credits0, estimateOf, prev, procs>>

ProcessVideo(j, in) ==
    LET res == processVideo(Store, j, in.r1, in.r2, in.checks)
    IN  /\ Commit(res.S)
        /\ last' = StageCall("processVideo", j, DriverObserved(in), res)
        /\ UNCHANGED <<gen, inflight, credits0, estimateOf, prev, procs>>

Next ==
    \/ \E u \in Users : Submit(u)
    \/ \E j \in Jobs, r \in DownloadResponses : StartVideoDownload(j, r)
    \/ \E j \in Jobs, r \in TranscriptionResponses : StartTranscription(j, r)
    \/ \E j \in Jobs, in \in CheckInputs : CheckTranscriptionStatus(j, in)
    \/ \E j \in Jobs, in \in DriverInputs : ProcessVideo(j, in)

Spec == Init /\ [][Next]_vars

----------------------------------------------------------------------------
(* SpecLedger: the functions of credit.service.ts, one call after another *)

Amounts == {estimatedCredits, MaxAmount}

BalanceOf(u) == IF u \in DOMAIN credits THEN credits[u] ELSE NULLINT

LedgerCall(op, u, a, ret) ==
    [op |-> op, userId |-> u, amount |-> a, ret |-> ret,
     balanceBefore |-> BalanceOf(u), lenBefore |-> Len(tx)]

SpendCredits(u, a) ==
    LET req == SpendReq(u, a, NULL, NULL, NULLINT)
    IN  /\ Commit(spendCredits(Store, req))
        /\ last' = LedgerCall("spendCredits", u, a, SufficientCredits(Store, req))
        /\ prev' = NoCall
        /\ UNCHANGED <<gen, inflight, credits0, estimateOf, procs>>

RefundCredits(u, a) ==
    /\ Commit(refundCredits(Store, RefundReq(u, a, NULL, NULL)))
    /\ last' = LedgerCall("refundCredits", u, a, TRUE)
    /\ prev' = last
    /\ UNCHANGED <<gen, inflight, credits0, estimateOf, procs>>

\* grantCreditsHandler
GrantCredits(u, a, hashOk) ==
    LET res == grantCredits(Store, AdminReq(u, a), hashOk)
    IN  /\ Commit(res.S)
        /\ last' = LedgerCall("grantCredits", u, a, res.success)
        /\ prev' = NoCall
        /\ UNCHANGED <<gen, inflight, credits0, estimateOf, procs>>

\* deductCreditsHandler
DeductCredits(u, a, hashOk) ==
    LET res == deductCredits(Store, AdminReq(u, a), hashOk)
    IN  /\ Commit(res.S)
        /\ last' = LedgerCall("deductCredits", u, a, res.success)
        /\ prev' = NoCall
        /\ UNCHANGED <<gen, inflight, credits0, estimateOf, procs>>

AdminTargets == Users \cup {NoSuchUser, AllUsers}

\* admin requests: every target with the right hash, one with a wrong hash
AdminInputs ==
    {[userId |-> u, amount |-> estimatedCredits, hashOk |-> TRUE] :
        u \in AdminTargets}
    \cup {[userId |-> AllUsers, amount |-> estimatedCredits, hashOk |-> FALSE]}

NextLedger ==
    \/ \E u \in Users \cup {NoSuchUser}, a \in Amounts : SpendCredits(u, a)
    \/ \E u \in Users, a \in Amounts : RefundCredits(u, a)
    \/ \E in \in AdminInputs : GrantCredits(in.userId, in.amount, in.hashOk)
    \/ \E in \in AdminInputs : DeductCredits(in.userId, in.amount, in.hashOk)

SpecLedger == Init /\ [][NextLedger]_vars

----------------------------------------------------------------------------
(* SpecAdmin: the admin functions of credit.service.ts over several accounts *)

Accounts == 1..NumAccounts

InitAccounts ==
    /\ credits \in [Accounts -> InitialBalances]
    /\ credits0 = credits
    /\ tx = <<>>
    /\ videos = <<>>
    /\ estimateOf = <<>>
    /\ last = NoCall
    /\ prev = NoCall
    /\ procs = [p \in Procs |-> ProcIdle]
    /\ inflight = [i \in Slots |-> NoInvocation]
    /\ gen = AINotRunning

AccountInputs ==
    {[userId |-> u, amount |-> estimatedCredits, hashOk |-> TRUE] :
        u \in Accounts \cup {NumAccounts + 1, AllUsers}}
    \cup {[userId |-> AllUsers, amount |-> estimatedCredits, hashOk |-> FALSE]}

NextAdmin ==
    \/ \E in \in AccountInputs : GrantCredits(in.userId, in.amount, in.hashOk)
    \/ \E in \in AccountInputs : DeductCredits(in.userId, in.amount, in.hashOk)

SpecAdmin == InitAccounts /\ [][NextAdmin]_vars

----------------------------------------------------------------------------
(* SpecConc: concurrent spendCredits calls, one step per await *)

\* a request arrives: spendCredits is entered
ConcBegin(p, u, a) ==
    /\ procs[p].pc = "idle"
    /\ procs' = [procs EXCEPT ![p] = [@ EXCEPT !.pc = "find", !.userId = u,
                                               !.amount = a]]
    /\ UNCHANGED <<gen, inflight, credits, credits0, tx, videos, estimateOf, last, prev>>

\* `const user = await UserRepository.findOne(...)` and the guard after it
ConcFindUser(p) ==
    /\ procs[p].pc = "find"
    /\ LET me == procs[p]
           req == SpendReq(me.userId, me.amount, NULL, NULL, NULLINT)
       IN  procs' = [procs EXCEPT ![p] =
              IF SufficientCredits(Store, req)
              THEN [me EXCEPT !.pc = "save", !.user = credits[me.userId]]
              ELSE [me EXCEPT !.pc = "done", !.ret = FALSE]]
    /\ UNCHANGED <<gen, inflight, credits, credits0, tx, videos, estimateOf, last, prev>>

\* `await CreditTransactionRepository.save(transaction)`
ConcSave(p) ==
    /\ procs[p].pc = "save"
    /\ tx' = Append(tx, SpendRow(SpendReq(procs[p].userId, procs[p].amount,
                                          NULL, NULL, NULLINT)))
    /\ procs' = [procs EXCEPT ![p].pc = "update"]
    /\ UNCHANGED <<gen, inflight, credits, credits0, videos, estimateOf, last, prev>>

\* `await UserRepository.update(userId, {credits: user.credits - amount})`
ConcUpdate(p) ==
    /\ procs[p].pc = "update"
    /\ credits' = [credits EXCEPT ![procs[p].userId] =
                                      procs[p].user - procs[p].amount]
    /\ procs' = [procs EXCEPT ![p] = [@ EXCEPT !.pc = "done", !.ret = TRUE]]
    /\ UNCHANGED <<gen, inflight, credits0, tx, videos, estimateOf, last, prev>>

NextConc ==
    \/ \E p \in Procs, u \in Users, a \in Amounts : ConcBegin(p, u, a)
    \/ \E p \in Procs : ConcFindUser(p)
    \/ \E p \in Procs : ConcSave(p)
    \/ \E p \in Procs : ConcUpdate(p)

SpecConc == Init /\ [][NextConc]_vars

----------------------------------------------------------------------------
(* SpecRace: concurrent spendCredits, refundCredits, grantCredits and
   deductCredits calls for one user, one step per await *)

LedgerOps == {"spendCredits", "refundCredits", "grantCredits", "deductCredits"}

RaceIdle == [pc |-> "idle", op |-> "none", userId |-> 0, amount |-> 0,
             user |-> NULLINT]

InitRace ==
    /\ credits \in [Users -> InitialBalances]
    /\ credits0 = credits
    /\ tx = <<>>
    /\ videos = <<>>
    /\ estimateOf = <<>>
    /\ last = NoCall
    /\ prev = NoCall
    /\ procs = [p \in Procs |-> RaceIdle]
    /\ inflight = [i \in Slots |-> NoInvocation]
    /\ gen = AINotRunning

\* the row each function saves
RaceRow(me) ==
    CASE me.op = "spendCredits" ->
             SpendRow(SpendReq(me.userId, me.amount, NULL, NULL, NULLINT))
      [] me.op = "refundCredits" ->
             RefundRow(RefundReq(me.userId, me.amount, NULL, NULL))
      [] me.op = "grantCredits" -> AdminRow(me.userId, me.amount, "admin_grant")
      [] me.op = "deductCredits" ->
             AdminRow(me.userId, -me.amount, "admin_deduct")

\* a call is entered; refundCredits saves its row before it reads the user,
\* the other three read the user first
RaceBegin(p, op, u, a) ==
    /\ procs[p].pc = "idle"
    /\ procs' = [procs EXCEPT ![p] =
                    [@ EXCEPT !.pc = IF op = "refundCredits" THEN "save"
                                     ELSE "find",
                              !.op = op, !.userId = u, !.amount = a]]
    /\ UNCHANGED <<gen, inflight, credits, credits0, tx, videos, estimateOf,
                   last, prev>>

\* `await UserRepository.findOne(...)`, and in spendCredits and deductCredits
\* the test `user.credits < amount`
RaceFindUser(p) ==
    /\ procs[p].pc = "find"
    /\ LET me == procs[p]
       IN  procs' = [procs EXCEPT ![p] =
              IF /\ me.op \in {"spendCredits", "deductCredits"}
                 /\ credits[me.userId] < me.amount
              THEN [me EXCEPT !.pc = "refused"]
              ELSE [me EXCEPT !.user = credits[me.userId],
                              !.pc = IF me.op = "refundCredits" THEN "update"
                                     ELSE "save"]]
    /\ UNCHANGED <<gen, inflight, credits, credits0, tx, videos, estimateOf,
                   last, prev>>

\* `await CreditTransactionRepository.save(transaction)`
RaceSave(p) ==
    /\ procs[p].pc = "save"
    /\ tx' = Append(tx, RaceRow(procs[p]))
    /\ procs' = [procs EXCEPT ![p].pc = IF procs[p].op = "refundCredits"
                                        THEN "find" ELSE "update"]
    /\ UNCHANGED <<gen, inflight, credits, credits0, videos, estimateOf, last,
                   prev>>

\* `await UserRepository.update(userId, {credits: user.credits +/- amount})`
RaceUpdate(p) ==
    /\ procs[p].pc = "update"
    /\ credits' = [credits EXCEPT ![procs[p].userId] =
                      procs[p].user + RaceRow(procs[p]).amount]
    /\ procs' = [procs EXCEPT ![p].pc = "done"]
    /\ UNCHANGED <<gen, inflight, credits0, tx, videos, estimateOf, last, prev>>

NextRace ==
    \/ \E p \in Procs, op \in LedgerOps, u \in Users :
           RaceBegin(p, op, u, estimatedCredits)
    \/ \E p \in Procs : RaceFindUser(p)
    \/ \E p \in Procs : RaceSave(p)
    \/ \E p \in Procs : RaceUpdate(p)

SpecRace == InitRace /\ [][NextRace]_vars

----------------------------------------------------------------------------
(* SpecCost: calculateCreditsFromTokens, one application after another *)

\* token counts at, next to and between the multiples of 500
TokenInputs ==
    {t \in 0..MaxTokens : t % 500 \in {0, 1, 250, 499}}

CalculateCredits(t) ==
    /\ last' = [op |-> "calculateCreditsFromTokens", tokensUsed |-> t,
                ret |-> calculateCreditsFromTokens(t)]
    /\ UNCHANGED <<gen, inflight, credits, credits0, tx, videos, estimateOf, prev, procs>>

NextCost == \E t \in TokenInputs : CalculateCredits(t)

SpecCost == Init /\ [][NextCost]_vars

----------------------------------------------------------------------------
(* SpecRequests: the handlers of video.controller.ts.  A request starts an  *)
(* invocation of a service function; the invocation is in flight until it  *)
(* returns, and writes what it stores when it returns.                     *)

Running == {i \in Slots : inflight[i].op # "none"}

\* a new invocation takes the first free slot
Begin(op, j) ==
    /\ Running # Slots
    /\ LET i == CHOOSE k \in Slots \ Running : \A m \in Slots \ Running : k <= m
       IN  inflight' = [inflight EXCEPT ![i] = [op |-> op, job |-> j]]

DispatchRunsCheckWhenCompleted(status) ==
    CASE status = "pending" -> "startVideoDownload"
      [] status = "downloaded" -> "startTranscription"
      [] status \in {"transcribing", "completed"} -> "checkTranscriptionStatus"
      [] OTHER -> "none"

\* checkVideoStatusHandler: the function it calls for a stored status
Dispatch(status) ==
    CASE status = "pending" -> "startVideoDownload"
      [] status = "downloaded" -> "startTranscription"
      [] status = "transcribing" -> "checkTranscriptionStatus"
      [] OTHER -> "none"

\* createVideoHandler: createVideoWithCredits, then startVideoDownload is
\* called without await and the reply is sent
SubmitRequest(u) ==
    LET res == createVideoWithCredits(Store, u)
    IN  /\ res.ret = "created"
        /\ Len(res.S.videos) <= MaxJobs
        /\ Commit(res.S)
        /\ Begin("startVideoDownload", Len(res.S.videos))
        /\ estimateOf' = Append(estimateOf, Len(res.S.tx))
        /\ UNCHANGED <<gen, credits0, last, prev, procs>>

\* checkVideoStatusHandler, up to the call it awaits
StatusRequest(j) ==
    /\ Dispatch(videos[j].status) # "none"
    /\ Begin(Dispatch(videos[j].status), j)
    /\ UNCHANGED <<gen, credits, credits0, tx, videos, estimateOf, last, prev, procs>>

\* processVideoHandler: processVideo is called without await
ProcessRequest(j) ==
    /\ Begin("processVideo", j)
    /\ UNCHANGED <<gen, credits, credits0, tx, videos, estimateOf, last, prev, procs>>

\* the invocation in slot i returns, having left the store S
Return(i, S) ==
    /\ Commit(S)
    /\ inflight' = [inflight EXCEPT ![i] = NoInvocation]
    /\ UNCHANGED <<gen, credits0, estimateOf, last, prev, procs>>

DownloadReturns(i, r) ==
    /\ inflight[i].op = "startVideoDownload"
    /\ Return(i, startVideoDownload(Store, inflight[i].job, r).S)

TranscriptionReturns(i, r) ==
    /\ inflight[i].op = "startTranscription"
    /\ Return(i, startTranscription(Store, inflight[i].job, r).S)

CheckReturns(i, in) ==
    /\ inflight[i].op = "checkTranscriptionStatus"
    /\ Return(i, checkTranscriptionStatus(Store, inflight[i].job, in.script,
                                          in.f, in.ai).S)

ProcessReturns(i, in) ==
    /\ inflight[i].op = "processVideo"
    /\ Return(i, processVideo(Store, inflight[i].job, in.r1, in.r2, in.checks).S)

NextRequests ==
    \/ \E u \in Users : SubmitRequest(u)
    \/ \E j \in Jobs : StatusRequest(j)
    \/ \E j \in Jobs : ProcessRequest(j)
    \/ \E i \in Slots, r \in DownloadResponses : DownloadReturns(i, r)
    \/ \E i \in Slots, r \in TranscriptionResponses : TranscriptionReturns(i, r)
    \/ \E i \in Slots, in \in CheckInputs : CheckReturns(i, in)
    \/ \E i \in Slots, in \in DriverInputs : ProcessReturns(i, in)

SpecRequests == Init /\ [][NextRequests]_vars

----------------------------------------------------------------------------
(* SpecAccess: the handlers of video.controller.ts with the caller's        *)
(* identity.  `last` holds the status code of the last reply.              *)

\* `request.user` is undefined: the request carries no valid token
Anonymous == 0

Callers == Accounts \cup {Anonymous}

\* the ids a request can name: the stored jobs and one id that is not stored
JobIds == 1..(MaxJobs + 1)

\* accounts that cannot pay for a submission, and accounts that can
InitAccess ==
    /\ credits \in [Accounts -> {0, MaxBalance}]
    /\ credits0 = credits
    /\ tx = <<>>
    /\ videos = <<>>
    /\ estimateOf = <<>>
    /\ last = NoCall
    /\ prev = NoCall
    /\ procs = [p \in Procs |-> ProcIdle]
    /\ inflight = [i \in Slots |-> NoInvocation]
    /\ gen = AINotRunning

Reply(code) == [op |-> "reply", code |-> code]

AccessNoOwnerCheck(S, auth, id) ==
    IF auth = Anonymous THEN 401
    ELSE IF id \notin DOMAIN S.videos THEN 404
    ELSE 200

\* the checks at the head of getVideoHandler, checkVideoStatusHandler and
\* processVideoHandler; 200 stands for "goes on"
Access(S, auth, id) ==
    IF auth = Anonymous THEN 401
    ELSE IF id \notin DOMAIN S.videos THEN 404
    ELSE IF S.videos[id].userId # auth THEN 403
    ELSE 200

createVideoHandler(auth) ==
    LET res == createVideoWithCredits(Store, auth)
    IN  IF auth = Anonymous
        THEN /\ last' = Reply(401)
             /\ UNCHANGED <<gen, inflight, credits, credits0, tx, videos, estimateOf,
                            prev, procs>>
        ELSE IF res.ret # "created"
        THEN /\ last' = Reply(400)
             /\ UNCHANGED <<gen, inflight, credits, credits0, tx, videos, estimateOf,
                            prev, procs>>
        ELSE /\ Len(res.S.videos) <= MaxJobs
             /\ Commit(res.S)
             /\ Begin("startVideoDownload", Len(res.S.videos))
             /\ estimateOf' = Append(estimateOf, Len(res.S.tx))
             /\ last' = Reply(201)
             /\ UNCHANGED <<gen, credits0, prev, procs>>

getVideoHandler(auth, id) ==
    /\ last' = Reply(Access(Store, auth, id))
    /\ UNCHANGED <<gen, inflight, credits, credits0, tx, videos, estimateOf, prev,
                   procs>>

getUserVideosHandler(auth) ==
    /\ last' = Reply(IF auth = Anonymous THEN 401 ELSE 200)
    /\ UNCHANGED <<gen, inflight, credits, credits0, tx, videos, estimateOf, prev,
                   procs>>

getFailedVideosHandler(auth) ==
    /\ last' = Reply(IF auth = Anonymous THEN 401 ELSE 200)
    /\ UNCHANGED <<gen, inflight, credits, credits0, tx, videos, estimateOf, prev,
                   procs>>

\* what the services answer to the calls of this specification
AccessCheckInputs ==
    {CheckInput(TextNow, Processing, ai) : ai \in AIResults}
    \cup {CheckInput(AllProcessing, Processing, NoAI),
          CheckInput(FailedNow, ServiceFailed, NoAI)}

AccessDriverInputs ==
    {DriverInput("failure", "success", Unread),
     DriverInput("success", "success", NeverCompletes)}
    \cup {DriverInput("success", "success",
                      DriverChecks(1, StillProcessing, final)) :
             final \in DriverFinalChecks}

\* the reply of checkVideoStatusHandler, with the stage function it awaited
StatusReply(called) == [op |-> "reply", code |-> 200, called |-> called]

\* the handler awaits the function it dispatches to
checkVideoStatusHandler(auth, id) ==
    /\ IF Access(Store, auth, id) # 200
       THEN /\ last' = Reply(Access(Store, auth, id))
            /\ UNCHANGED <<credits, tx, videos>>
       ELSE LET called == Dispatch(videos[id].status)
            IN  /\ last' = StatusReply(called)
                /\ CASE called = "startVideoDownload" ->
                          \E r \in DownloadResponses :
                              Commit(startVideoDownload(Store, id, r).S)
                     [] called = "startTranscription" ->
                          \E r \in TranscriptionResponses :
                              Commit(startTranscription(Store, id, r).S)
                     [] called = "checkTranscriptionStatus" ->
                          \E in \in AccessCheckInputs :
                              Commit(checkTranscriptionStatus(
                                         Store, id, in.script, in.f, in.ai).S)
                     [] OTHER -> UNCHANGED <<credits, tx, videos>>
    /\ UNCHANGED <<gen, inflight, credits0, estimateOf, prev, procs>>

\* processVideo is called without await
processVideoHandler(auth, id) ==
    IF Access(Store, auth, id) # 200
    THEN /\ last' = Reply(Access(Store, auth, id))
         /\ UNCHANGED <<gen, inflight, credits, credits0, tx, videos, estimateOf,
                        prev, procs>>
    ELSE /\ Begin("processVideo", id)
         /\ last' = Reply(202)
         /\ UNCHANGED <<gen, credits, credits0, tx, videos, estimateOf, prev, procs>>

NextAccess ==
    \/ \E auth \in Callers : createVideoHandler(auth)
    \/ \E auth \in Callers, id \in JobIds : getVideoHandler(auth, id)
    \/ \E auth \in Callers : getUserVideosHandler(auth)
    \/ \E auth \in Callers : getFailedVideosHandler(auth)
    \/ \E auth \in Callers, id \in JobIds : checkVideoStatusHandler(auth, id)
    \/ \E auth \in Callers, id \in JobIds : processVideoHandler(auth, id)
    \/ \E i \in Slots, r \in DownloadResponses : DownloadReturns(i, r)
    \/ \E i \in Slots, in \in AccessDriverInputs : ProcessReturns(i, in)

SpecAccess == InitAccess /\ [][NextAccess]_vars

----------------------------------------------------------------------------
(* SpecPoll: pollTranscriptionStatus against a scripted status endpoint *)

\* the fetch throws at every odd attempt before k
ThrowsEveryOther(k, then) ==
    [i \in 1..maxAttempts |->
        IF i >= k THEN then ELSE IF i % 2 = 1 THEN FetchThrows ELSE Processing]

PollScripts ==
    {PollScript(k, first, then) :
        k \in 1..maxAttempts,
        first \in {Processing, Unsuccessful, FetchThrows},
        then \in {Processing, CompletedWithText, CompletedNoText, ServiceFailed,
                  Unsuccessful, FetchThrows}}
    \cup {ThrowsEveryOther(k, then) :
             k \in 1..maxAttempts,
             then \in {CompletedWithText, ServiceFailed, Processing}}

\* one call; `attempts` is the number of status queries it issued
PollTranscriptionStatus(script) ==
    /\ last' = [op |-> "pollTranscriptionStatus", script |-> script,
                ret |-> PollFrom(script, 0).ret,
                attempts |-> PollFrom(script, 0).attempts]
    /\ UNCHANGED <<gen, inflight, credits, credits0, tx, videos, estimateOf,
                   prev, procs>>

NextPoll == \E script \in PollScripts : PollTranscriptionStatus(script)

SpecPoll == Init /\ [][NextPoll]_vars

----------------------------------------------------------------------------
(* SpecService: checkTranscriptionStatus called again and again while the
   transcription service holds one answer per job *)

\* `prev` holds what GET /transcriptions/{id}/status answers for each job
InitService ==
    /\ credits \in [Users -> InitialBalances]
    /\ credits0 = credits
    /\ tx = <<>>
    /\ videos = <<>>
    /\ estimateOf = <<>>
    /\ last = NoCall
    /\ prev = [j \in 1..MaxJobs |-> Processing]
    /\ procs = [p \in Procs |-> ProcIdle]
    /\ inflight = [i \in Slots |-> NoInvocation]
    /\ gen = AINotRunning

ServiceAnswers ==
    {CompletedWithText, CompletedNoText, ServiceFailed, Unsuccessful}

\* the service ends the transcription of job j; from then on it gives the
\* same answer to every status fetch
ServiceReports(j, r) ==
    /\ videos[j].transcriptionId # NULL
    /\ prev[j] = Processing
    /\ prev' = [prev EXCEPT ![j] = r]
    /\ UNCHANGED <<gen, inflight, credits, credits0, tx, videos, estimateOf,
                   last, procs>>

\* one checkTranscriptionStatus call: every fetch of its poll loop and its
\* own status fetch get the service's answer for the job
CheckAgain(j, ai) ==
    CheckTranscriptionStatus(j, CheckInput(PollScript(1, prev[j], prev[j]),
                                           prev[j], ai))

\* the earlier stages run once, at the status the status handler runs them
NextService ==
    \/ \E u \in Users : Submit(u)
    \/ \E j \in Jobs, r \in DownloadResponses :
           videos[j].status = "pending" /\ StartVideoDownload(j, r)
    \/ \E j \in Jobs, r \in TranscriptionResponses :
           videos[j].status = "downloaded" /\ StartTranscription(j, r)
    \/ \E j \in Jobs, r \in ServiceAnswers : ServiceReports(j, r)
    \/ \E j \in Jobs, ai \in AIResults : CheckAgain(j, ai)

SpecService == InitService /\ [][NextService]_vars

\* the caller keeps asking: a check that is due is made
SpecServiceLive ==
    SpecService /\ WF_vars(\E j \in Jobs, ai \in AIResults : CheckAgain(j, ai))

----------------------------------------------------------------------------
(* SpecJobs: several jobs, of one account or of different accounts, whose
   stage calls interleave *)

SubmitJob(u) ==
    LET res == createVideoWithCredits(Store, u)
    IN  /\ res.ret = "created"
        /\ Len(res.S.videos) <= NumJobs
        /\ Commit(res.S)
        /\ estimateOf' = Append(estimateOf, Len(res.S.tx))
        /\ last' = StageCall("createVideoWithCredits", Len(res.S.videos),
                             "none", res)
        /\ UNCHANGED <<gen, inflight, credits0, prev, procs>>

\* each job is taken through its stages in order; which job moves next is
\* free
NextJobs ==
    \/ \E u \in Accounts : SubmitJob(u)
    \/ \E j \in Jobs, r \in DownloadResponses :
           videos[j].status = "pending" /\ StartVideoDownload(j, r)
    \/ \E j \in Jobs, r \in TranscriptionResponses :
           videos[j].status = "downloaded" /\ StartTranscription(j, r)
    \/ \E j \in Jobs, in \in AccessCheckInputs :
           videos[j].status = "transcribing" /\ CheckTranscriptionStatus(j, in)

SpecJobs == InitAccess /\ [][NextJobs]_vars

----------------------------------------------------------------------------
(* SpecLedgerAndPipeline *)

\* ledger calls and pipeline calls in one run, one call after another
NextLedgerAndPipeline ==
    \/ \E u \in Users : Submit(u)
    \/ \E j \in Jobs, r \in DownloadResponses :
           videos[j].status = "pending" /\ StartVideoDownload(j, r)
    \/ \E j \in Jobs, r \in TranscriptionResponses :
           videos[j].status = "downloaded" /\ StartTranscription(j, r)
    \/ \E j \in Jobs, in \in CheckInputs :
           videos[j].status = "transcribing" /\ CheckTranscriptionStatus(j, in)
    \/ \E j \in Jobs, in \in AccessDriverInputs : ProcessVideo(j, in)
    \/ \E u \in Users : SpendCredits(u, estimatedCredits)
    \/ \E u \in Users : RefundCredits(u, estimatedCredits)
    \/ \E u \in Users \cup {AllUsers} : GrantCredits(u, estimatedCredits, TRUE)
    \/ \E u \in Users \cup {AllUsers} : DeductCredits(u, estimatedCredits, TRUE)

SpecLedgerAndPipeline == Init /\ [][NextLedgerAndPipeline]_vars

----------------------------------------------------------------------------
(* SpecStore: updateVideo with a storage that can fail *)

\* what the storage does in one attempt: both calls return, or
\* `VideoRepository.update` throws, or `getVideoById` throws after the update
StorageOutcomes == {"ok", "update throws", "read throws"}

\* an outcome the call does not read, one after an "ok", is held at "ok"
StorageScripts ==
    {script \in [1..maxRetries -> StorageOutcomes] :
        \A k \in 1..(maxRetries - 1) : script[k] = "ok" => script[k + 1] = "ok"}

StorageError(attempt, outcome) == [attempt |-> attempt, outcome |-> outcome]

RetryDelayConstant(attempt) == 1000

\* `setTimeout(resolve, 1000 * attempt)`
RetryDelay(attempt) == 1000 * attempt

RECURSIVE UpdateFrom(_, _, _, _, _, _, _)
\* the loop of updateVideo from `attempt` on; `ret` holds the job returned,
\* and is empty when the call throws
UpdateFrom(S, id, updateData, script, attempt, delays, lastError) ==
    IF attempt > maxRetries
    THEN [S |-> S, threw |-> TRUE, ret |-> <<>>, error |-> lastError,
          attempts |-> maxRetries, delays |-> delays]
    ELSE LET written == IF script[attempt] = "update throws" THEN S
                        ELSE updateVideo(S, id, updateData)
         IN  IF script[attempt] = "ok"
             THEN [S |-> written, threw |-> FALSE,
                   ret |-> <<written.videos[id]>>,
                   error |-> StorageError(0, "ok"), attempts |-> attempt,
                   delays |-> delays]
             ELSE UpdateFrom(written, id, updateData, script, attempt + 1,
                             IF attempt < maxRetries
                             THEN Append(delays, RetryDelay(attempt))
                             ELSE delays,
                             StorageError(attempt, script[attempt]))

updateVideoWithRetry(S, id, updateData, script) ==
    UpdateFrom(S, id, updateData, script, 1, <<>>, StorageError(0, "ok"))

\* the field updates the pipeline asks for
UpdateInputs ==
    {[status |-> "downloaded", videoId |-> "video-1"],
     [status |-> "transcribing", transcriptionId |-> "transcription-1"],
     Failed("Failed to download video")}

\* every user can pay for submissions
InitStore ==
    /\ credits = [u \in Users |-> MaxBalance]
    /\ credits0 = credits
    /\ tx = <<>>
    /\ videos = <<>>
    /\ estimateOf = <<>>
    /\ last = NoCall
    /\ prev = NoCall
    /\ procs = [p \in Procs |-> ProcIdle]
    /\ inflight = [i \in Slots |-> NoInvocation]
    /\ gen = AINotRunning

UpdateVideo(j, updateData, script) ==
    LET res == updateVideoWithRetry(Store, j, updateData, script)
    IN  /\ Commit(res.S)
        /\ last' = [op |-> "updateVideo", job |-> j, updateData |-> updateData,
                    script |-> script, threw |-> res.threw,
                    ret |-> res.ret, error |-> res.error,
                    attempts |-> res.attempts, delays |-> res.delays]
        /\ UNCHANGED <<gen, inflight, credits0, estimateOf, prev, procs>>

NextStore ==
    \/ \E u \in Users : Submit(u)
    \/ \E j \in Jobs, updateData \in UpdateInputs, script \in StorageScripts :
           UpdateVideo(j, updateData, script)

SpecStore == InitStore /\ [][NextStore]_vars

----------------------------------------------------------------------------
(* SpecAI: one run of generateAIInsights, one step per LLM completion.  A   *)
(* text is the sequence of the lengths of its sentences, a chunk is a run   *)
(* of sentences; the space that trim() removes is not counted.              *)

SentenceLengths == {2800}

\* the transcripts, after removeDuplicateSegments
Texts == UNION {[1..n -> SentenceLengths] : n \in 1..MaxSentences}

RECURSIVE SumSeq(_)
SumSeq(q) == IF q = <<>> THEN 0 ELSE Head(q) + SumSeq(Tail(q))

\* the characters of a chunk under construction: `sentence + '. '` each
ChunkLength(chunk) == SumSeq(chunk) + 2 * Len(chunk)

estimateTokenCount(length) == CeilDiv(length, 4)

RECURSIVE RobustFrom(_, _, _, _)
\* the loop of createRobustChunks over the sentences that are left
RobustFrom(sentences, currentChunk, chunks, maxTokens) ==
    IF sentences = <<>>
    THEN IF currentChunk # <<>> THEN Append(chunks, currentChunk) ELSE chunks
    ELSE LET sentence == Head(sentences)
             testChunk == Append(currentChunk, sentence)
         IN  IF /\ estimateTokenCount(ChunkLength(testChunk)) > maxTokens
                /\ currentChunk # <<>>
             THEN RobustFrom(Tail(sentences), <<sentence>>,
                             Append(chunks, currentChunk), maxTokens)
             ELSE RobustFrom(Tail(sentences), testChunk, chunks, maxTokens)

createRobustChunks(text, maxTokens) == RobustFrom(text, <<>>, <<>>, maxTokens)

RECURSIVE createSmallerChunks(_, _)
createSmallerChunks(chunks, maxTokens) ==
    IF chunks = <<>> THEN <<>>
    ELSE createRobustChunks(Head(chunks), maxTokens)
             \o createSmallerChunks(Tail(chunks), maxTokens)

\* `tokenCount > 2000 ? createRobustChunks(deduplicatedText, 1500)
\*                    : [deduplicatedText]`
InitialChunks(text) ==
    IF estimateTokenCount(ChunkLength(text) - 1) > 2000
    THEN createRobustChunks(text, 1500)
    ELSE <<text>>

\* what one `openai.chat.completions.create` call does: it answers with a
\* content that parses ("json"), with one that does not and is replaced by
\* the fallback result ("text"), with no content ("empty"), each with the
\* usage the provider reports, or it throws ("error")
Completion(kind, usage) == [kind |-> kind, usage |-> usage]

Completions ==
    {Completion("json", 600), Completion("text", 600), Completion("empty", 50),
     Completion("error", 0)}

\* the usage the provider reported for a completion
ReportedUsage(o) == IF o.kind = "error" THEN 0 ELSE o.usage

\* the error a completion makes processChunkWithRetry catch
ErrorOf(o) ==
    IF o.kind = "empty" THEN "Empty response from OpenAI" ELSE "API error"

\* a result of processChunkWithRetry, with the chunk and the outer attempt it
\* was computed for
ChunkResult(chunk, attempt) == [chunk |-> chunk, attempt |-> attempt]

Generating(text) ==
    [pc |-> "detectLanguage", text |-> text, currentChunks |-> <<>>,
     attempt |-> 0, i |-> 0, chunkAttempt |-> 0, results |-> <<>>,
     totalTokensUsed |-> 0, error |-> NULL, tokensUsed |-> NULLINT,
     issued |-> 0, issuedForChunk |-> 0, reported |-> 0]
\* issued, reported: history, the completions issued for chunks and the sum
\* of the usage reported for them; issuedForChunk: history, the completions
\* issued by the running or last call of processChunkWithRetry

InitAI ==
    /\ credits = [u \in Users |-> MaxBalance]
    /\ credits0 = credits
    /\ tx = <<>>
    /\ videos = <<>>
    /\ estimateOf = <<>>
    /\ last = NoCall
    /\ prev = NoCall
    /\ procs = [p \in Procs |-> ProcIdle]
    /\ inflight = [i \in Slots |-> NoInvocation]
    /\ gen \in {Generating(text) : text \in Texts}

\* detectLanguage returns a language or, when its completion throws, 'en';
\* then the text is cut into chunks and processAllChunksWithRetry is entered
DetectLanguage(language) ==
    /\ gen.pc = "detectLanguage"
    /\ gen' = [gen EXCEPT !.pc = "chunks",
                          !.currentChunks = InitialChunks(gen.text),
                          !.attempt = 1, !.i = 1, !.chunkAttempt = 1]
    /\ UNCHANGED <<inflight, credits, credits0, tx, videos, estimateOf, last,
                   prev, procs>>

LastAttemptOneLater(attempt) == attempt = maxRetries + 1

\* `if (attempt === maxRetries) throw error`
LastAttempt(attempt) == attempt = maxRetries

\* the completion of chunk i answers: processChunkWithRetry returns a result
ChunkSucceeds(o) ==
    LET total == gen.totalTokensUsed + o.usage
        g == [gen EXCEPT !.results = Append(@, ChunkResult(gen.currentChunks[gen.i],
                                                          gen.attempt)),
                         !.totalTokensUsed = total]
    IN  IF gen.i = Len(gen.currentChunks)
        THEN [g EXCEPT !.pc = "returned", !.tokensUsed = total]
        ELSE [g EXCEPT !.i = @ + 1, !.chunkAttempt = 1]

\* the completion of chunk i throws, or answers without content
ChunkFails(o) ==
    LET g == [gen EXCEPT !.error = ErrorOf(o)]
    IN  IF ~LastAttempt(gen.chunkAttempt)
        THEN [g EXCEPT !.chunkAttempt = @ + 1]
        ELSE IF LastAttempt(gen.attempt)
        THEN [g EXCEPT !.pc = "threw"]
        ELSE [g EXCEPT !.currentChunks = createSmallerChunks(@, 800),
                       !.attempt = @ + 1, !.i = 1, !.chunkAttempt = 1]

\* one iteration of the loop of processChunkWithRetry, with what follows it
\* in processAllChunksWithRetry and generateAIInsights
CompleteChunk(o) ==
    /\ gen.pc = "chunks"
    /\ LET g == IF o.kind \in {"json", "text"}
                THEN ChunkSucceeds(o) ELSE ChunkFails(o)
       IN  gen' = [g EXCEPT !.issued = gen.issued + 1,
                            !.issuedForChunk =
                                IF gen.chunkAttempt = 1 THEN 1
                                ELSE gen.issuedForChunk + 1,
                            !.reported = gen.reported + ReportedUsage(o)]
    /\ UNCHANGED <<inflight, credits, credits0, tx, videos, estimateOf, last,
                   prev, procs>>

NextAI ==
    \/ \E language \in {"en", "pt", "throws"} : DetectLanguage(language)
    \/ \E o \in Completions : CompleteChunk(o)

SpecAI == InitAI /\ [][NextAI]_vars

\* every completion returns or throws, and the waits between retries end
SpecAILive == SpecAI /\ WF_vars(NextAI)

----------------------------------------------------------------------------
(* SpecChunks: splitTextIntoChunks and createRobustChunks on texts written
   out character by character.  A string is a sequence of characters. *)

Chars == {"a", "b", " ", ".", "?"}

CharTexts == UNION {[1..n -> Chars] : n \in 0..MaxChars}

\* token budgets that make texts of this length split
Budgets == {1, 2}

\* String.prototype.trim
Trim(str) ==
    LET solid == {i \in 1..Len(str) : str[i] # " "}
    IN  IF solid = {} THEN <<>>
        ELSE SubSeq(str, CHOOSE i \in solid : \A k \in solid : i <= k,
                         CHOOSE i \in solid : \A k \in solid : k <= i)

RECURSIVE SplitFrom(_, _, _, _)
\* `text.split(/[.!?]+/)` read from character i on: a piece ends at every
\* terminator; the empty pieces this leaves between terminators that follow
\* one another do not pass the filter of Sentences
SplitFrom(text, i, piece, pieces) ==
    IF i > Len(text) THEN Append(pieces, piece)
    ELSE IF text[i] \in {".", "!", "?"}
    THEN SplitFrom(text, i + 1, <<>>, Append(pieces, piece))
    ELSE SplitFrom(text, i + 1, Append(piece, text[i]), pieces)

\* `(s) => s.trim().length > 0`
NotBlank(str) == Trim(str) # <<>>

\* `text.split(/[.!?]+/).filter((s) => s.trim().length > 0)`
Sentences(text) == SelectSeq(SplitFrom(text, 1, <<>>, <<>>), NotBlank)

StartChunkEmpty(sentence) == <<>>

\* `currentChunk = sentence + '. '`
StartChunk(sentence) == sentence \o <<".", " ">>

RECURSIVE ChunksFrom(_, _, _, _, _)
\* the for loop of both functions from sentence k on, and the push after it
ChunksFrom(sentences, k, currentChunk, chunks, maxTokens) ==
    IF k > Len(sentences)
    THEN IF Trim(currentChunk) # <<>> THEN Append(chunks, Trim(currentChunk))
         ELSE chunks
    ELSE LET testChunk == currentChunk \o sentences[k] \o <<".", " ">>
         IN  IF /\ estimateTokenCount(Len(testChunk)) > maxTokens
                /\ Len(currentChunk) > 0
             THEN ChunksFrom(sentences, k + 1, StartChunk(sentences[k]),
                             Append(chunks, Trim(currentChunk)), maxTokens)
             ELSE ChunksFrom(sentences, k + 1, testChunk, chunks, maxTokens)

splitTextIntoChunks(text, maxTokens) ==
    ChunksFrom(Sentences(text), 1, <<>>, <<>>, maxTokens)

\* createRobustChunks, on a string; it also keeps `currentTokens`, which it
\* never reads
createRobustChunksOfString(text, maxTokens) ==
    ChunksFrom(Sentences(text), 1, <<>>, <<>>, maxTokens)

InitChunks ==
    /\ credits \in [Users -> {MaxBalance}]
    /\ credits0 = credits
    /\ tx = <<>>
    /\ videos = <<>>
    /\ estimateOf = <<>>
    /\ last = NoCall
    /\ prev = NoCall
    /\ procs = [p \in Procs |-> ProcIdle]
    /\ inflight = [i \in Slots |-> NoInvocation]
    /\ \E text \in CharTexts, maxTokens \in Budgets :
           gen = [pc |-> "text", text |-> text, maxTokens |-> maxTokens,
                  chunks |-> <<>>]

SplitTextIntoChunks ==
    /\ gen.pc = "text"
    /\ gen' = [gen EXCEPT !.pc = "splitTextIntoChunks",
                          !.chunks = splitTextIntoChunks(gen.text, gen.maxTokens)]
    /\ UNCHANGED <<inflight, credits, credits0, tx, videos, estimateOf, last,
                   prev, procs>>

CreateRobustChunks ==
    /\ gen.pc = "text"
    /\ gen' = [gen EXCEPT !.pc = "createRobustChunks",
                          !.chunks = createRobustChunksOfString(gen.text,
                                                                gen.maxTokens)]
    /\ UNCHANGED <<inflight, credits, credits0, tx, videos, estimateOf, last,
                   prev, procs>>

NextChunks == SplitTextIntoChunks \/ CreateRobustChunks

SpecChunks == InitChunks /\ [][NextChunks]_vars

----------------------------------------------------------------------------
(* SpecSynthesis: generateAIInsights with the content of the chunk results:
   the language detection, one completion per chunk that parses, and
   consolidateAIResults.  A text is a sequence of words. *)

\* a field the parsed JSON does not have
Absent == [present |-> FALSE]

\* `summary: {text, metrics, topics}`; of the metrics, the three that vary
SummaryOf(text, mainTopics, keyInsights, complexity, topics) ==
    [present |-> TRUE, text |-> text, mainTopics |-> mainTopics,
     keyInsights |-> keyInsights, complexity |-> complexity, topics |-> topics]

\* an insight item; `category` is the title of the section type whose
\* keywords its text matches best ('Key Insights' when none matches)
Item(text, category) == [text |-> text, category |-> category]

Section(title, items) == [title |-> title, items |-> items]

InsightsOf(sections) == [present |-> TRUE, sections |-> sections]

Branch(label) == [label |-> label, children |-> <<>>]

\* `mindMap: {root, branches}`; a mindMap without `branches` has none
MindMapOf(root, branches) ==
    [present |-> TRUE, root |-> root, branches |-> branches]

ParsedResult(summary, insights, mindMap) ==
    [summary |-> summary, insights |-> insights, mindMap |-> mindMap]

\* what the completion of a chunk can parse to: two results of the full
\* shape, the second one as the fallback result is built; a result without
\* insights whose mindMap has no branches; a result without mindMap
ParsedResults ==
    {ParsedResult(SummaryOf(<<"s1">>, 2, 1, "Basic", <<"a1", "a2">>),
                  InsightsOf(<<Section("Analysis",
                                       <<Item("important", "Key Insights")>>)>>),
                  MindMapOf("Topic A", <<Branch("a1"), Branch("a2")>>)),
     ParsedResult(SummaryOf(<<"s2">>, 1, 1, "Basic", <<"b1">>),
                  InsightsOf(<<Section("Analysis",
                                       <<Item("risk", "Risk Factors")>>)>>),
                  MindMapOf("Video Insights", <<Branch("b1")>>)),
     ParsedResult(SummaryOf(<<"s3">>, 0, 0, "Basic", <<>>), Absent,
                  MindMapOf("Topic C", <<>>)),
     ParsedResult(SummaryOf(<<"s4">>, 0, 1, "Basic", <<>>),
                  InsightsOf(<<Section("Analysis",
                                       <<Item("plain", "Key Insights")>>)>>),
                  Absent)}

RECURSIVE FlatMap(_, _)
\* `results.flatMap(f)`
FlatMap(f(_), results) ==
    IF results = <<>> THEN <<>>
    ELSE f(Head(results)) \o FlatMap(f, Tail(results))

\* `.filter((r) => r.summary).map((r) => r.summary.text)`
SummaryTextOf(r) == IF r.summary.present THEN r.summary.text ELSE <<>>

\* `.filter((r) => r.insights).flatMap((r) => r.insights.sections || [])`
SectionsOf(r) == IF r.insights.present THEN r.insights.sections ELSE <<>>

BranchesOfFirstOnly(r) ==
    IF r.mindMap.present /\ r.mindMap.branches # <<>>
    THEN <<Head(r.mindMap.branches)>> ELSE <<>>

\* `.filter((r) => r.mindMap).flatMap((r) => r.mindMap.branches || [])`
BranchesOf(r) == IF r.mindMap.present THEN r.mindMap.branches ELSE <<>>

ItemsOf(section) == section.items

RECURSIVE Categorize(_, _)
\* `categorizedSections[bestMatch.title].push(item)` for every item: the
\* categories in the order they first occur, each with its items
Categorize(items, categorized) ==
    IF items = <<>> THEN categorized
    ELSE LET item == Head(items)
             at == {k \in DOMAIN categorized :
                       categorized[k].title = item.category}
         IN  Categorize(Tail(items),
                 IF at = {}
                 THEN Append(categorized, Section(item.category, <<item>>))
                 ELSE [categorized EXCEPT ![CHOOSE k \in at : TRUE].items =
                                              Append(@, item)])

createDiverseInsightsSections(allSections) ==
    LET categorized == Categorize(FlatMap(ItemsOf, allSections), <<>>)
        finalSections ==
            [k \in DOMAIN categorized |->
                Section(categorized[k].title,
                        SubSeq(categorized[k].items, 1,
                               Min(5, Len(categorized[k].items))))]
    IN  IF finalSections = <<>>
        THEN <<Section("Key Insights",
                       <<Item("Video analysis completed successfully",
                              "Key Insights")>>)>>
        ELSE finalSections

\* the dashboard consolidateAIResults builds (the chips repeat the two
\* counts of the metrics)
consolidateAIResults(chunkResults) ==
    LET allSummaries == FlatMap(SummaryTextOf, chunkResults)
        allInsights == FlatMap(SectionsOf, chunkResults)
        allBranches == FlatMap(BranchesOf, chunkResults)
        diverseSections == createDiverseInsightsSections(allInsights)
    IN  ParsedResult(
            SummaryOf(IF allSummaries = <<>>
                      THEN <<"Video analysis completed">> ELSE allSummaries,
                      Len(allBranches), Len(diverseSections), "Comprehensive",
                      [k \in DOMAIN allBranches |-> allBranches[k].label]),
            InsightsOf(diverseSections),
            MindMapOf("Video Insights", allBranches))

\* `gen` holds the call: the number of chunks the text was cut into, the
\* results so far, the completions requested from the LLM, the dashboard
InitSynthesis ==
    /\ credits = [u \in Users |-> MaxBalance]
    /\ credits0 = credits
    /\ tx = <<>>
    /\ videos = <<>>
    /\ estimateOf = <<>>
    /\ last = NoCall
    /\ prev = NoCall
    /\ procs = [p \in Procs |-> ProcIdle]
    /\ inflight = [i \in Slots |-> NoInvocation]
    /\ \E n \in 1..MaxResults :
           gen = [pc |-> "detectLanguage", chunks |-> n, results |-> <<>>,
                  llmCalls |-> 0, dashboard |-> Absent]

\* `const language = await detectLanguage(transcription)`: one completion
SynthesisDetectsLanguage ==
    /\ gen.pc = "detectLanguage"
    /\ gen' = [gen EXCEPT !.pc = "chunks", !.llmCalls = @ + 1]
    /\ UNCHANGED <<inflight, credits, credits0, tx, videos, estimateOf, last,
                   prev, procs>>

\* the completion of the next chunk answers and parses to r
ChunkParses(r) ==
    /\ gen.pc = "chunks"
    /\ Len(gen.results) < gen.chunks
    /\ gen' = [gen EXCEPT !.results = Append(@, r), !.llmCalls = @ + 1]
    /\ UNCHANGED <<inflight, credits, credits0, tx, videos, estimateOf, last,
                   prev, procs>>

\* `consolidateAIResults(allResults.results)` and the return
ConsolidateAIResults ==
    /\ gen.pc = "chunks"
    /\ Len(gen.results) = gen.chunks
    /\ gen' = [gen EXCEPT !.pc = "returned",
                          !.dashboard = consolidateAIResults(gen.results)]
    /\ UNCHANGED <<inflight, credits, credits0, tx, videos, estimateOf, last,
                   prev, procs>>

NextSynthesis ==
    \/ SynthesisDetectsLanguage
    \/ \E r \in ParsedResults : ChunkParses(r)
    \/ ConsolidateAIResults

SpecSynthesis == InitSynthesis /\ [][NextSynthesis]_vars

----------------------------------------------------------------------------
(* Properties *)

Rank(status) ==
    CASE status = "pending" -> 1
      [] status = "downloaded" -> 2
      [] status = "transcribing" -> 3
      [] status = "completed" -> 4
      [] OTHER -> 0

Terminal(status) == status \in {"completed", "failed"}

\* the refund rows recorded for job j
RefundsOf(j) ==
    {i \in DOMAIN tx : /\ tx[i].type = "refund"
                       /\ tx[i].userId = videos[j].userId
                       /\ tx[i].referenceId = toString(j)}

\* the spend rows charged for job j: the row of its submission and every
\* spend row that names it
ChargesOf(j) ==
    {estimateOf[j]} \cup {i \in DOMAIN tx : /\ tx[i].type = "spend"
                                            /\ tx[i].referenceId = toString(j)}

RECURSIVE SumAmounts(_)
SumAmounts(rows) ==
    IF rows = {} THEN 0
    ELSE LET i == CHOOSE k \in rows : TRUE
         IN  tx[i].amount + SumAmounts(rows \ {i})

RECURSIVE SumSpent(_, _)
\* the amounts of the concurrent spendCredits calls of user u that returned true
SumSpent(ps, u) ==
    IF ps = {} THEN 0
    ELSE LET p == CHOOSE q \in ps : TRUE
         IN  (IF procs[p].userId = u /\ procs[p].ret THEN procs[p].amount ELSE 0)
                 + SumSpent(ps \ {p}, u)

StageErrors ==
    {"Failed to download video", "Failed to request transcription",
     "fetch failed", "AI processing failed"}

\* C1: a job's status changes only forward along pending -> downloaded ->
\* transcribing -> completed or into failed, and never again once it is
\* completed or failed.
C1_StatusOnlyAdvances ==
    [][\A j \in Jobs :
          videos'[j].status # videos[j].status
              => /\ ~Terminal(videos[j].status)
                 /\ \/ videos'[j].status = "failed"
                    \/ Rank(videos'[j].status) > Rank(videos[j].status)]_vars

\* C2: after startVideoDownload fails on a job, the job is failed with an
\* error message, the ledger holds exactly one refund of the estimate for it,
\* and (with no other job or charge) the balance is the pre-submission one.
C2_DownloadFailureRefunds ==
    (last.op = "startVideoDownload" /\ last.threw)
        => LET j == last.job
           IN  /\ videos[j].status = "failed"
               /\ videos[j].errorMessage # NULL
               /\ Cardinality(RefundsOf(j)) = 1
               /\ \A i \in RefundsOf(j) : tx[i].amount = estimatedCredits
               /\ (Len(videos) = 1 /\ Len(tx) <= 2)
                      => credits[videos[j].userId] = credits0[videos[j].userId]

\* C3: the refunds recorded for a job never add up to more than its estimate.
C3_RefundAtMostEstimate ==
    \A j \in Jobs : SumAmounts(RefundsOf(j)) <= estimatedCredits

\* a stage function threw inside processVideo, so the catch block of the stage
\* and then the catch block of processVideo ran on the job
C3_Witness ==
    /\ last.op = "processVideo"
    /\ last.threw
    /\ last.ret \in StageErrors
    /\ videos[last.job].status = "failed"

\* C4: a completed job has a dashboard and exactly one spend row, the row of
\* its submission rewritten to the final cost of the tokens recorded on the job.
C4_CompletedHasOneFinalizedSpend ==
    \A j \in Jobs :
        videos[j].status = "completed"
            => /\ videos[j].dashboard # NULL
               /\ ChargesOf(j) = {estimateOf[j]}
               /\ tx[estimateOf[j]].referenceType = "video_ai_processing"
               /\ tx[estimateOf[j]].amount =
                      -calculateCreditsFromTokens(videos[j].tokensUsed)

\* C5: once all concurrent spendCredits calls have returned, each balance is
\* the initial balance minus the spends that returned true, and not negative.
C5_SpendIsAtomic ==
    (\A p \in Procs : procs[p].pc = "done")
        => \A u \in Users : /\ credits[u] = credits0[u] - SumSpent(Procs, u)
                            /\ credits[u] >= 0

\* C6: a spendCredits call for more than the balance, or for a missing user,
\* returns false and changes neither the balances nor the transaction log.
C6_InsufficientSpendNoEffect ==
    [][(/\ last'.op = "spendCredits"
        /\ \/ last'.userId \notin Users
           \/ last'.amount > credits[last'.userId])
          => /\ last'.ret = FALSE
             /\ credits' = credits
             /\ tx' = tx]_vars

C6_Witness ==
    /\ last.op = "spendCredits"
    /\ last.userId \in Users
    /\ last.amount > last.balanceBefore
    /\ ~last.ret

\* C7: a successful spendCredits(u, a) followed at once by refundCredits(u, a)
\* leaves the balance of u at its pre-spend value and has appended exactly a
\* spend row of -a and a refund row of +a.
C7_SpendRefundRoundTrip ==
    (/\ prev.op = "spendCredits" /\ prev.ret
     /\ last.op = "refundCredits"
     /\ last.userId = prev.userId /\ last.amount = prev.amount)
        => /\ credits[last.userId] = prev.balanceBefore
           /\ Len(tx) = prev.lenBefore + 2
           /\ tx[Len(tx) - 1].type = "spend"
           /\ tx[Len(tx) - 1].amount = -last.amount
           /\ tx[Len(tx)].type = "refund"
           /\ tx[Len(tx)].amount = last.amount

C7_Witness ==
    /\ prev.op = "spendCredits" /\ prev.ret
    /\ last.op = "refundCredits"
    /\ last.userId = prev.userId /\ last.amount = prev.amount

\* C8: a checkTranscriptionStatus call during which the service only reports
\* processing returns 'transcribing' and changes neither the job nor the ledger.
C8_ProcessingCheckChangesNothing ==
    [][(/\ last'.op = "checkTranscriptionStatus"
        /\ last'.obs = "processing"
        /\ videos[last'.job].transcriptionId # NULL)
          => /\ ~last'.threw
             /\ last'.ret = "transcribing"
             /\ videos' = videos
             /\ tx' = tx
             /\ credits' = credits]_vars

C8_Witness ==
    /\ last.op = "checkTranscriptionStatus"
    /\ last.obs = "processing"
    /\ last.ret = "transcribing"
    /\ videos[last.job].status = "downloaded"

\* C9: when the service reports failed, the job is failed and its estimate has
\* been refunded, after a direct check as well as after processVideo.
C9_ServiceFailureRefunds ==
    (/\ last.op \in {"checkTranscriptionStatus", "processVideo"}
     /\ last.obs = "failed"
     /\ last.ret \in {"failed", "Processing failed"})
        => /\ videos[last.job].status = "failed"
           /\ RefundsOf(last.job) # {}

\* C10: when synthesis throws on a returned transcript, the job is failed with
\* an error message, has no dashboard, and its estimate was refunded once.
C10_SynthesisFailureRefundsOnce ==
    (/\ last.op = "checkTranscriptionStatus"
     /\ last.obs = "text"
     /\ last.threw
     /\ last.ret = "AI processing failed")
        => LET j == last.job
           IN  /\ videos[j].status = "failed"
               /\ videos[j].errorMessage # NULL
               /\ videos[j].dashboard = NULL
               /\ Cardinality(RefundsOf(j)) = 1
               /\ SumAmounts(RefundsOf(j)) = estimatedCredits

\* C11: after startVideoDownload, startTranscription or
\* checkTranscriptionStatus threw for an existing job, the job is failed with
\* an error message and the function ran the refund of the estimate before it
\* rethrew.
C11_StageErrorFailsJobAndTriesRefund ==
    (/\ last.op \in {"startVideoDownload", "startTranscription",
                     "checkTranscriptionStatus"}
     /\ last.threw)
        => /\ videos[last.job].status = "failed"
           /\ videos[last.job].errorMessage # NULL
           /\ last.refundTried

\* C12: a checkTranscriptionStatus or processVideo call during which the
\* service answered processing to every status fetch does not move the job to
\* failed.
C12_PollExhaustionIsNotFailure ==
    [][(/\ last'.op \in {"checkTranscriptionStatus", "processVideo"}
        /\ last'.obs = "processing"
        /\ videos'[last'.job].status = "failed")
          => /\ last'.op = "checkTranscriptionStatus"
             /\ videos[last'.job].status = "failed"]_vars

\* C13: when a transcript is returned and synthesized, no estimate row is found
\* and the balance does not cover the final cost, checkTranscriptionStatus
\* returns 'failed' without throwing, sets the job to failed with the message
\* 'Insufficient credits for AI processing', writes no dashboard and leaves
\* the ledger and the balances as they were.
C13_InsufficientAtFinalizeFailsWithoutRefund ==
    [][\A j \in Jobs, ai \in AIResults :
          (/\ CheckTranscriptionStatus(j, CheckInput(TextNow, Processing, ai))
           /\ ~ai.threw
           /\ videos[j].transcriptionId # NULL
           /\ FindInitialTransaction(Store, videos[j].userId, j) = 0
           /\ credits[videos[j].userId]
                  < calculateCreditsFromTokens(ai.tokensUsed))
             => /\ last'.ret = "failed"
                /\ ~last'.threw
                /\ videos'[j].status = "failed"
                /\ videos'[j].errorMessage
                       = "Insufficient credits for AI processing"
                /\ videos'[j].dashboard = videos[j].dashboard
                /\ tx' = tx
                /\ credits' = credits]_vars

C13_Witness ==
    /\ last.op = "checkTranscriptionStatus"
    /\ last.obs = "text"
    /\ last.ret = "failed"
    /\ ~last.threw
    /\ videos[last.job].errorMessage = "Insufficient credits for AI processing"
    /\ credits[videos[last.job].userId] < minCredits

\* C14: in every state a job has a dashboard exactly when it is completed.
C14_DashboardIffCompleted ==
    \A j \in Jobs : (videos[j].dashboard # NULL) <=> (videos[j].status = "completed")

\* C15: in every state a job has an error message exactly when it is failed.
C15_ErrorMessageIffFailed ==
    \A j \in Jobs : (videos[j].errorMessage # NULL) <=> (videos[j].status = "failed")

\* the least n with n * 500 >= t
CeilOf500(t) ==
    CHOOSE n \in 0..(t \div 500 + 1) : n * 500 >= t /\ (n = 0 \/ (n - 1) * 500 < t)

\* C16: calculateCreditsFromTokens(t) = max(3, min(10, 2 + ceil(t / 500))) for
\* every token count t >= 0; the result lies in 3..10 and does not decrease
\* when t grows.
C16_CostFormula ==
    last.op = "calculateCreditsFromTokens"
        => /\ last.ret = Max(3, Min(10, 2 + CeilOf500(last.tokensUsed)))
           /\ last.ret \in 3..10
           /\ \A t \in 0..last.tokensUsed :
                  /\ calculateCreditsFromTokens(t) <= last.ret
                  /\ calculateCreditsFromTokens(t)
                         = Max(3, Min(10, 2 + CeilOf500(t)))

\* a token count past the cap: 2 + ceil(t / 500) exceeds 10
C16_Witness ==
    /\ last.op = "calculateCreditsFromTokens"
    /\ last.tokensUsed > 4000
    /\ last.ret = 10

\* the responses of one poll loop hold a completed transcript
HasTranscript(script) ==
    \E i \in 1..maxAttempts : /\ script[i].ok /\ script[i].success
                              /\ script[i].status = "completed"
                              /\ script[i].text # ""

\* the last call got past the transcript branch of checkTranscriptionStatus:
\* generateAIInsights was called
SynthesisRan(call, video) ==
    \/ call.ret \in {"completed", "AI processing failed"}
    \/ /\ call.ret = "failed"
       /\ video.errorMessage = "Insufficient credits for AI processing"

\* C17: startTranscription gets to the transcription adapter only on a job
\* whose download stored the external video id, and checkTranscriptionStatus
\* runs the synthesis only when the service returned a completed transcript;
\* so a job has a transcription id only with a video id, and a dashboard only
\* with a transcription id.
C17_StagesInOrder ==
    [][/\ \A j \in Jobs :
             (/\ last'.op = "startTranscription"
              /\ last'.job = j
              /\ last'.ret # "Video not found or not downloaded")
                => videos[j].videoId # NULL
       /\ \A j \in Jobs, in \in CheckInputs :
             (/\ CheckTranscriptionStatus(j, in)
              /\ SynthesisRan(last', videos'[j]))
                => /\ HasTranscript(in.script)
                   /\ videos[j].transcriptionId # NULL
       /\ \A j \in DOMAIN videos' :
             /\ videos'[j].transcriptionId # NULL => videos'[j].videoId # NULL
             /\ videos'[j].dashboard # NULL
                    => videos'[j].transcriptionId # NULL]_vars

\* startTranscription was called on a job that has not been downloaded
C17_Witness ==
    /\ last.op = "startTranscription"
    /\ last.threw
    /\ last.ret = "Video not found or not downloaded"
    /\ videos[last.job].videoId = NULL
    /\ videos[last.job].transcriptionId = NULL

\* C18: at most one pipeline invocation is in flight for a job.
C18_OneInvocationPerJob ==
    \A j \in Jobs : Cardinality({i \in Running : inflight[i].job = j}) <= 1

\* C19: a submission by user u with a balance of at least 5 appends one
\* pending job owned by u, takes exactly 5 from the balance of u and appends
\* one spend row of -5; with a lower balance it changes neither the jobs, the
\* balances nor the ledger.
C19_SubmitReservesEstimate ==
    [][\A u \in Users :
          Submit(u) =>
             IF credits[u] >= 5
             THEN /\ Len(videos') = Len(videos) + 1
                  /\ SubSeq(videos', 1, Len(videos)) = videos
                  /\ videos'[Len(videos')].status = "pending"
                  /\ videos'[Len(videos')].userId = u
                  /\ credits' = [credits EXCEPT ![u] = @ - 5]
                  /\ Len(tx') = Len(tx) + 1
                  /\ SubSeq(tx', 1, Len(tx)) = tx
                  /\ tx'[Len(tx')].type = "spend"
                  /\ tx'[Len(tx')].userId = u
                  /\ tx'[Len(tx')].amount = -5
             ELSE /\ videos' = videos
                  /\ credits' = credits
                  /\ tx' = tx]_vars

\* a submission was refused after an earlier one had created a job
C19_Witness ==
    /\ last.op = "createVideoWithCredits"
    /\ last.ret = "Insufficient credits"
    /\ Len(videos) = 1
    /\ videos[1].status = "pending"
    /\ credits[videos[1].userId] = credits0[videos[1].userId] - 5
    /\ Len(tx) = 1

SignMatchesType(row) ==
    /\ row.type \in {"spend", "admin_deduct"} => row.amount < 0
    /\ row.type \in {"refund", "admin_grant", "purchase"} => row.amount > 0

\* C20: in every ledger the four credit functions produce from positive
\* amounts, each row's sign matches its type (spend, admin_deduct negative;
\* refund, admin_grant, purchase positive), and a spend row rewritten by the
\* finalization to the final cost still does.
C20_AmountSignMatchesType ==
    /\ \A i \in DOMAIN tx : SignMatchesType(tx[i])
    /\ \A i \in DOMAIN tx, t \in TokenSamples :
          tx[i].type = "spend"
              => SignMatchesType(
                     AmendTransaction(Store, i, calculateCreditsFromTokens(t),
                                      t).tx[i])

\* a ledger with a spend, an admin_deduct and a positive row
C20_Witness ==
    /\ \E i \in DOMAIN tx : tx[i].type = "spend"
    /\ \E i \in DOMAIN tx : tx[i].type = "admin_deduct"
    /\ \E i \in DOMAIN tx : tx[i].type \in {"refund", "admin_grant"}

\* the ledger L keeps every row of the stored ledger as it is
KeepsRows(L) == Len(L) >= Len(tx) /\ SubSeq(L, 1, Len(tx)) = tx

\* C21: no pipeline call and no ledger function changes or removes a stored
\* transaction row, except that a finalization may rewrite the estimate row
\* of its job, once, from the submission estimate to the final charge.
C21_RowsAreImmutable ==
    [][/\ Len(tx') >= Len(tx)
       /\ \A i \in DOMAIN tx :
             tx'[i] # tx[i]
                => \E j \in Jobs :
                      /\ estimateOf[j] = i
                      /\ tx[i].referenceType = "video_submission_estimated"
                      /\ tx'[i].referenceType = "video_ai_processing"
                      /\ videos'[j].status = "completed"
       /\ \A u \in Users \cup {NoSuchUser}, a \in Amounts :
             /\ KeepsRows(spendCredits(Store, SpendReq(u, a, NULL, NULL,
                                                       NULLINT)).tx)
             /\ KeepsRows(refundCredits(Store, RefundReq(u, a, NULL, NULL)).tx)
       /\ \A in \in AdminInputs :
             /\ KeepsRows(grantCredits(Store, AdminReq(in.userId, in.amount),
                                       in.hashOk).S.tx)
             /\ KeepsRows(deductCredits(Store, AdminReq(in.userId, in.amount),
                                        in.hashOk).S.tx)]_vars

\* a finalization has charged a job that already had its estimate row
C21_Witness ==
    /\ last.op \in {"checkTranscriptionStatus", "processVideo"}
    /\ videos[last.job].status = "completed"
    /\ Len(tx) >= 2
    /\ tx[estimateOf[last.job]].referenceType = "video_submission_estimated"

\* the users whose balance covers `amount`
Covered(amount) == {u \in DOMAIN credits : credits[u] >= amount}

NewRows == SubSeq(tx', Len(tx) + 1, Len(tx'))

\* C22: a deduction from all users takes `amount` from exactly the users whose
\* balance is at least `amount`, appends one admin_deduct row of -amount for
\* each of them, leaves the other users unchanged and reports how many users
\* it deducted from; it fails and changes nothing when no user has enough. A
\* deduction from one user fails and changes nothing when that user's balance
\* is below `amount`.
C22_DeductFromThoseWhoCanPay ==
    [][\A in \in AccountInputs :
         LET res == deductCredits(Store, AdminReq(in.userId, in.amount), in.hashOk)
         IN  DeductCredits(in.userId, in.amount, in.hashOk) /\ in.hashOk =>
             IF in.userId = AllUsers
             THEN IF Covered(in.amount) = {}
                  THEN /\ ~last'.ret
                       /\ credits' = credits /\ tx' = tx
                  ELSE /\ last'.ret
                       /\ credits' = [u \in DOMAIN credits |->
                                        IF u \in Covered(in.amount)
                                        THEN credits[u] - in.amount
                                        ELSE credits[u]]
                       /\ KeepsRows(tx')
                       /\ Len(NewRows) = Cardinality(Covered(in.amount))
                       /\ {NewRows[i].userId : i \in DOMAIN NewRows}
                              = Covered(in.amount)
                       /\ \A i \in DOMAIN NewRows :
                              /\ NewRows[i].type = "admin_deduct"
                              /\ NewRows[i].amount = -in.amount
                       /\ res.users = Cardinality(Covered(in.amount))
             ELSE in.userId \in DOMAIN credits /\ credits[in.userId] < in.amount
                  => /\ ~last'.ret
                     /\ credits' = credits /\ tx' = tx]_vars

\* a deduction from all users that took from one user and skipped another
C22_Witness ==
    /\ last.op = "deductCredits" /\ last.userId = AllUsers /\ last.ret
    /\ Len(tx) = 1 /\ tx[1].type = "admin_deduct"
    /\ \E u, v \in DOMAIN credits :
          /\ credits[u] = credits0[u] - estimatedCredits
          /\ credits0[v] < estimatedCredits /\ credits[v] = credits0[v]


StoredStateUnchanged == UNCHANGED <<credits, tx, videos, inflight>>

\* C23: every video handler answers a request without identity with 401 and
\* neither creates nor advances a job; getVideoHandler, checkVideoStatusHandler
\* and processVideoHandler answer 404 for an id that is not stored and 403 for
\* a job of another user, and in each of these cases the jobs, the ledger, the
\* balances and the invocations in flight stay as they were.
C23_RejectedRequestsChangeNothing ==
    [][/\ createVideoHandler(Anonymous) \/ getUserVideosHandler(Anonymous)
              \/ getFailedVideosHandler(Anonymous)
          => last'.code = 401 /\ StoredStateUnchanged
       /\ \A auth \in Callers, id \in JobIds :
             LET refusal == IF auth = Anonymous THEN 401
                            ELSE IF id \notin Jobs THEN 404
                            ELSE IF videos[id].userId # auth THEN 403
                            ELSE 0
             IN  /\ refusal # 0
                 /\ getVideoHandler(auth, id) \/ checkVideoStatusHandler(auth, id)
                       \/ processVideoHandler(auth, id)
                 => last'.code = refusal /\ StoredStateUnchanged]_vars

\* a job that is still pending after a status request of another user was
\* refused
C23_Witness ==
    /\ last = Reply(403)
    /\ Len(videos) = 1 /\ videos[1].status = "pending"


RowsOf(u) == {i \in DOMAIN tx : tx[i].userId = u}

\* C24: when no ledger call is under way, the balance of every user is the
\* balance the user started with plus the amounts of all the user's
\* transaction rows; so the net charge of a finalized job is its creditsCost.
C24_BalanceMatchesLedger ==
    (\A p \in Procs : procs[p].pc \in {"idle", "done"})
        => \A u \in DOMAIN credits :
               credits[u] = credits0[u] + SumAmounts(RowsOf(u))


\* C25: for every job created by a submission, the estimate lookup by the
\* job's user, the job's id and the type video_submission_estimated finds the
\* spend row recorded at that submission, as long as that row has not been
\* rewritten by a finalization.
C25_EstimateLookupFindsSubmissionRow ==
    \A j \in Jobs :
        tx[estimateOf[j]].referenceType = "video_submission_estimated"
            => FindInitialTransaction(Store, videos[j].userId, j) = estimateOf[j]


\* C26: the tokensUsed that generateAIInsights returns is the sum of the
\* usage the provider reported for every completion issued for the chunks,
\* those of abandoned outer attempts and of discarded answers included.
C26_TokensUsedIsAllReportedUsage ==
    gen.pc = "returned" => gen.tokensUsed = gen.reported

RECURSIVE Flatten(_)
Flatten(chunks) ==
    IF chunks = <<>> THEN <<>> ELSE Head(chunks) \o Flatten(Tail(chunks))

AIRunning == gen.pc \in {"chunks", "returned", "threw"}

\* C27: processChunkWithRetry issues at most 3 completions for a chunk and,
\* when the third fails, throws the error of that third one;
\* processAllChunksWithRetry makes at most 3 attempts and after a failed
\* attempt that is not the last re-splits the chunks to the budget of 800
\* tokens; the number of completions is bounded and the run ends, with a
\* result or with a thrown error.
C27_RetriesAreBounded ==
    /\ [](AIRunning =>
             /\ gen.issuedForChunk <= maxRetries
             /\ gen.attempt <= maxRetries
             /\ gen.issued <= maxRetries * maxRetries * Len(gen.text))
    /\ [][\A o \in Completions :
             /\ CompleteChunk(o)
             /\ o.kind \in {"empty", "error"}
             /\ gen.issuedForChunk = maxRetries - 1 /\ gen.chunkAttempt > 1
             => /\ gen'.error = ErrorOf(o)
                /\ \/ gen'.pc = "threw" /\ gen.attempt = maxRetries
                   \/ /\ gen'.pc = "chunks" /\ gen'.attempt = gen.attempt + 1
                      /\ gen'.i = 1
                      /\ Flatten(gen'.currentChunks) = gen.text
                      /\ \A k \in DOMAIN gen'.currentChunks :
                            \/ Len(gen'.currentChunks[k]) = 1
                            \/ estimateTokenCount(
                                  ChunkLength(gen'.currentChunks[k])) <= 800]_vars
    /\ <>(gen.pc \in {"returned", "threw"})

\* a run that gave up after three attempts on chunks it had re-split
C27_Witness ==
    /\ gen.pc = "threw" /\ gen.attempt = maxRetries
    /\ gen.issuedForChunk = maxRetries
    /\ Len(gen.currentChunks) > Len(InitialChunks(gen.text))

\* C28: when processAllChunksWithRetry returns, its results are one result
\* for each chunk of the attempt that succeeded, in the order of the chunks,
\* and none of an earlier attempt.
C28_OneResultPerChunk ==
    gen.pc = "returned" =>
        /\ Len(gen.results) = Len(gen.currentChunks)
        /\ \A k \in DOMAIN gen.results :
              /\ k \in DOMAIN gen.currentChunks
              /\ gen.results[k].chunk = gen.currentChunks[k]
              /\ gen.results[k].attempt = gen.attempt


\* the first attempt of a script at which the storage does not fail, 0 when
\* there is none
FirstOk(script) ==
    IF \A k \in DOMAIN script : script[k] # "ok" THEN 0
    ELSE CHOOSE k \in DOMAIN script :
             script[k] = "ok" /\ \A m \in 1..(k - 1) : script[m] # "ok"

\* C29: updateVideo tries the write at most 3 times, waits 1000 ms times the
\* number of the failed attempt before the next one, returns the updated job
\* at the first attempt that succeeds, and after 3 failed attempts throws the
\* error of the last one.
C29_UpdateRetriesThenThrows ==
    last.op = "updateVideo" =>
        /\ last.attempts <= 3
        /\ last.delays = [k \in 1..(last.attempts - 1) |-> 1000 * k]
        /\ IF FirstOk(last.script) # 0
           THEN /\ ~last.threw
                /\ last.attempts = FirstOk(last.script)
                /\ last.ret = <<videos[last.job]>>
                /\ \A f \in DOMAIN last.updateData :
                      videos[last.job][f] = last.updateData[f]
           ELSE /\ last.threw
                /\ last.attempts = 3
                /\ last.error = StorageError(3, last.script[3])

\* an update that succeeded at its third attempt, after two waits
C29_Witness ==
    /\ last.op = "updateVideo" /\ ~last.threw
    /\ last.attempts = 3 /\ Len(last.delays) = 2
    /\ videos[last.job].status = "downloaded"


\* a response that ends the polling: completed or failed
Decides(r) == r.ok /\ r.success /\ r.status \in {"completed", "failed"}

\* the first attempt whose response ends the polling, 0 when there is none
FirstDeciding(script) ==
    IF \A i \in DOMAIN script : ~Decides(script[i]) THEN 0
    ELSE CHOOSE i \in DOMAIN script :
             Decides(script[i]) /\ \A m \in 1..(i - 1) : ~Decides(script[m])

\* C30: pollTranscriptionStatus issues at most 30 status queries; what it
\* returns other than null is the text of a completed response, the last one
\* it read; it returns null at the first response that reports failed; it
\* returns null after 30 queries when no response reported completed or
\* failed; a query that throws is counted and the polling goes on.
C30_PollIsBoundedAndStopsWhenDecided ==
    last.op = "pollTranscriptionStatus" =>
        LET script == last.script
            d == FirstDeciding(script)
        IN  /\ last.attempts <= 30
            /\ last.ret # NULL =>
                   /\ script[last.attempts].status = "completed"
                   /\ script[last.attempts].text = last.ret
            /\ d # 0 => /\ last.attempts = d
                        /\ script[d].status = "failed" => last.ret = NULL
            /\ d = 0 => last.attempts = 30 /\ last.ret = NULL

\* a call that read throwing and processing responses for 29 attempts and
\* returned the text of the 30th
C30_Witness ==
    /\ last.op = "pollTranscriptionStatus"
    /\ last.attempts = 30 /\ last.ret = "text"
    /\ ~last.script[1].ok /\ last.script[2].ok


\* C31: every processVideo call on a stored job makes at most 30
\* checkTranscriptionStatus calls; when it returns the job is stored as
\* completed, when it throws the job is stored as failed; either way the job
\* is not left in pending, downloaded or transcribing.
C31_ProcessVideoEndsCompletedOrFailed ==
    [][\A j \in Jobs, in \in DriverInputs :
          ProcessVideo(j, in) =>
              LET res == processVideo(Store, j, in.r1, in.r2, in.checks)
              IN  /\ res.checks <= maxAttempts
                  /\ ~res.threw => videos'[j].status = "completed"
                  /\ res.threw => videos'[j].status = "failed"
                  /\ Terminal(videos'[j].status)]_vars

\* a processVideo call that made all 30 checks and threw on a job that was
\* not failed before, and left it failed
C31_Witness ==
    /\ last.op = "processVideo"
    /\ last.ret = "Processing timed out"
    /\ videos[last.job].status = "failed"
    /\ videos[last.job].transcriptionId # NULL

\* C32: once the transcription service reports completed for a job that is
\* transcribing, with or without a text, repeated checkTranscriptionStatus
\* calls eventually leave the job completed or failed.
C32_CompletedServiceLeadsToTerminal ==
    \A j \in 1..MaxJobs :
        (/\ j \in Jobs
         /\ videos[j].status = "transcribing"
         /\ prev[j].success /\ prev[j].status = "completed")
            ~> (j \in Jobs /\ Terminal(videos[j].status))

\* C33: once all concurrent spendCredits, refundCredits, grantCredits and
\* deductCredits calls of a user have finished, the user's balance is the
\* initial balance plus the amounts of all rows the calls appended.
C33_NoBalanceUpdateLost ==
    (\A p \in Procs : procs[p].pc \in {"done", "refused"})
        => \A u \in Users : credits[u] - credits0[u] = SumAmounts(RowsOf(u))

\* the stage functions
StageOps ==
    {"startVideoDownload", "startTranscription", "checkTranscriptionStatus"}

\* C34: with several jobs whose stage calls interleave, a stage call for one
\* job leaves every other job's record as it was; of the rows already in the
\* ledger it can change only the estimate row of its own job; the rows it
\* appends (refund, final charge) carry its own job's id and owner; and it
\* changes no balance but the owner's.
C34_StagesTouchOnlyTheirJob ==
    [][last'.op \in StageOps =>
          LET j == last'.job
              owner == videos[j].userId
          IN  /\ \A k \in Jobs \ {j} : videos'[k] = videos[k]
              /\ \A i \in DOMAIN tx : tx'[i] = tx[i] \/ i = estimateOf[j]
              /\ \A i \in DOMAIN tx' \ DOMAIN tx :
                     /\ tx'[i].userId = owner
                     /\ tx'[i].referenceId = toString(j)
              /\ \A u \in Accounts \ {owner} : credits'[u] = credits[u]]_vars

\* two jobs of one account, the first submitted was failed by its download
\* after the second was submitted, and the second was then finalized
C34_Witness ==
    /\ Len(videos) = 2
    /\ videos[1].userId = videos[2].userId
    /\ videos[1].status = "failed"
    /\ videos[2].status = "completed"
    /\ last.op = "checkTranscriptionStatus" /\ last.job = 2

\* C35: after any sequence of ledger calls and pipeline calls that do not
\* overlap, with positive amounts, no balance is negative.
C35_BalanceNeverNegative ==
    \A u \in DOMAIN credits : credits[u] >= 0

\* a balance brought to zero by a submission, a finalization and an admin
\* deduction
C35_Witness ==
    \E u \in DOMAIN credits :
        /\ credits[u] = 0
        /\ credits0[u] > 0
        /\ \E j \in Jobs : videos[j].userId = u /\ videos[j].status = "completed"
        /\ \E i \in DOMAIN tx : tx[i].userId = u /\ tx[i].type = "admin_deduct"

\* the stored state after the step
StoreAfter == [credits |-> credits', tx |-> tx', videos |-> videos']

\* C36: a status request the handler accepts for a completed or failed job
\* calls no stage function and leaves jobs, ledger and balances as they
\* were; for a pending job the stored state after it is the one
\* startVideoDownload alone leaves, for a downloaded job the one
\* startTranscription alone leaves, for a transcribing job the one
\* checkTranscriptionStatus alone leaves.
C36_StatusRequestRunsOneStage ==
    [][\A auth \in Accounts, id \in Jobs :
          (Access(Store, auth, id) = 200 /\ checkVideoStatusHandler(auth, id))
              => LET status == videos[id].status
                 IN  /\ Terminal(status)
                         => last'.called = "none" /\ StoredStateUnchanged
                     /\ status = "pending"
                         => /\ last'.called = "startVideoDownload"
                            /\ \E r \in DownloadResponses :
                                   StoreAfter = startVideoDownload(Store, id, r).S
                     /\ status = "downloaded"
                         => /\ last'.called = "startTranscription"
                            /\ \E r \in TranscriptionResponses :
                                   StoreAfter = startTranscription(Store, id, r).S
                     /\ status = "transcribing"
                         => /\ last'.called = "checkTranscriptionStatus"
                            /\ \E in \in AccessCheckInputs :
                                   StoreAfter = checkTranscriptionStatus(
                                       Store, id, in.script, in.f, in.ai).S]_vars

\* a status request for a completed job was answered without a stage call
C36_Witness ==
    /\ "called" \in DOMAIN last
    /\ last.called = "none"
    /\ \E j \in Jobs : videos[j].status = "completed"

\* the sentences of a string, each without the blanks around it
TrimmedSentences(str) ==
    [k \in 1..Len(Sentences(str)) |-> Trim(Sentences(str)[k])]

RECURSIVE SentencesOfChunks(_)
\* the sentences of the chunks, chunk after chunk
SentencesOfChunks(chunks) ==
    IF chunks = <<>> THEN <<>>
    ELSE TrimmedSentences(Head(chunks)) \o SentencesOfChunks(Tail(chunks))

\* C37: for every text and budget, the sentences found in the chunks of
\* splitTextIntoChunks and of createRobustChunks, read chunk after chunk, are
\* the sentences of the text in their order, none cut, lost or repeated.
C37_ChunksKeepTheSentences ==
    gen.pc \in {"splitTextIntoChunks", "createRobustChunks"}
        => SentencesOfChunks(gen.chunks) = TrimmedSentences(gen.text)

\* a text of three sentences was cut into more than one chunk
C37_Witness ==
    /\ gen.pc = "splitTextIntoChunks"
    /\ Len(Sentences(gen.text)) = 3
    /\ Len(gen.chunks) > 1

\* the number of branches a chunk result brings
BranchCount(r) == IF r.mindMap.present THEN Len(r.mindMap.branches) ELSE 0

RECURSIVE BranchesBefore(_, _)
\* the number of branches of the first k - 1 chunk results
BranchesBefore(results, k) ==
    IF k <= 1 THEN 0
    ELSE BranchesBefore(results, k - 1) + BranchCount(results[k - 1])

\* C38: when consolidateAIResults merges several chunk results, the branches
\* of the merged mindMap are the branches of the chunk results one list after
\* the other in chunk order, so there are as many as the chunks have together.
C38_MergedBranchesAreTheChunksBranches ==
    (gen.pc = "returned" /\ Len(gen.results) >= 2)
        => LET merged == gen.dashboard.mindMap.branches
           IN  /\ Len(merged) = BranchesBefore(gen.results, Len(gen.results) + 1)
               /\ \A k \in DOMAIN gen.results :
                      \A b \in 1..BranchCount(gen.results[k]) :
                          merged[BranchesBefore(gen.results, k) + b]
                              = gen.results[k].mindMap.branches[b]

\* three chunk results were merged: one with a branch, one without a mindMap,
\* one with two branches
C38_Witness ==
    /\ gen.pc = "returned"
    /\ Len(gen.results) = 3
    /\ BranchCount(gen.results[1]) = 1
    /\ ~gen.results[2].mindMap.present
    /\ BranchCount(gen.results[3]) = 2
    /\ Len(gen.dashboard.mindMap.branches) = 3

\* summary, insights and mindMap are present
FullShape(r) == r.summary.present /\ r.insights.present /\ r.mindMap.present

\* C39: when the text needed one chunk and its completion parsed to a result
\* of the full shape, generateAIInsights returns that result as the dashboard
\* and has requested no completion but that one.
C39_SingleFullResultReturnedDirectly ==
    (gen.pc = "returned" /\ gen.chunks = 1 /\ FullShape(gen.results[1]))
        => gen.dashboard = gen.results[1] /\ gen.llmCalls = 1

====
